---- MODULE Spec2Model ----
(***************************************************************************)
(* A model of the resumable 13F download orchestrator:                     *)
(*   - the completion cache   (download_cache.json)                        *)
(*   - the progress tracker   (progress_cache.json)                        *)
(*   - the reconciliation engine (download_status_analyzer_utils.py)       *)
(*   - the main loop          (download_raw_13f_filings)                   *)
(*   - the gap-fill pass      (ensure_all_adshs_downloaded)                *)
(* Files are values; a process is a program counter plus its locals, and   *)
(* is lost when the process is terminated.                                 *)
(***************************************************************************)
EXTENDS Integers, Sequences, FiniteSets, TLC

\* ------------------------------------------------------------------ bounds
\* Number of entities (CIK files) of the inventory.
NumCiks == 2
\* Largest number of filings one entity has.
MaxItems == 2
\* Largest number of filings of the whole inventory.
MaxTotalRows == 3
\* Number of sessions (orchestrator runs and gap-fill passes) of a behaviour.
MaxRuns == 2
\* Largest list handed to the reconciliation engine for one entity.
MaxRecs == 3
\* Number of save_download_cache calls of a behaviour of SpecCache.
MaxCalls == 2

\* ------------------------------------------------------- program constants
\* extract_raw_13f_filings.py:333 flushes every 50 newly downloaded keys and
\* missing_adsh_downloader_utils.py:87 every 25; both are scaled down so that
\* an inventory of a few items crosses a flush boundary.
FlushInterval == 2
GapFlushInterval == 2

\* ------------------------------------------------------------- inventory
\* The names of the CIK files, in the order glob returns them.
\* (extract_filing_adshs names a file after the CIK zero-padded to 10 digits.)
AllCiks == <<"0000000001", "0000000002", "0000000003", "0000000004">>
cik_files == SubSeq(AllCiks, 1, NumCiks)
Ciks == {cik_files[i] : i \in 1..Len(cik_files)}
\* The cik column of a row of that file is the number itself, as pandas reads
\* it; str() of it has no padding.
RowCik(stem) ==
  CASE stem = "0000000001" -> "1"
    [] stem = "0000000002" -> "2"
    [] stem = "0000000003" -> "3"
    [] stem = "0000000004" -> "4"
\* '' : no entity.
NoCik == ""

Range(s) == {s[i] : i \in 1..Len(s)}

\* The list a Python set is turned into by list(): some enumeration of it.
RECURSIVE ListOfSet(_)
ListOfSet(S) ==
  IF S = {} THEN <<>>
  ELSE LET x == CHOOSE y \in S : TRUE IN <<x>> \o ListOfSet(S \ {x})

\* f"{cik}_{accession_number}": the composite key of one filing.
get_filing_cache_key(cik, accession_number) == <<cik, accession_number>>

\* One row of a CIK file: the entity and the accession number of its filename.
Row(cik, acc) == [cik |-> cik, accession_number |-> acc, form_type |-> "13F-HR"]
RowKey(r) == get_filing_cache_key(r.cik, r.accession_number)

\* The rows of an entity that has n filings, in file order.
RowsOf(stem, n) == [j \in 1..n |-> Row(RowCik(stem), j)]

\* --------------------------------------------------------- files as values
AbsentFile == [status |-> "absent"]
\* A file that was truncated by open(..., 'w') and not (fully) written.
CorruptFile == [status |-> "corrupt"]

\* ------------------------------------------------------- completion cache
\* A plausible slip: an unparsable file yields the cursor index -1 ("not
\* found") instead of 0.
load_download_cache_lost_cursor(f) ==
  IF f.status = "ok"
  THEN [downloaded_filings |-> Range(f.downloaded_filings),
        last_cik |-> f.last_cik,
        last_filing_index |-> f.last_filing_index]
  ELSE [downloaded_filings |-> {},
        last_cik |-> NoCik,
        last_filing_index |-> IF f.status = "corrupt" THEN -1 ELSE 0]

\* load_download_cache: what a reader gets from the file; an absent or
\* unparsable file gives the empty set and the cursor ('', 0).
load_download_cache(f) ==
  IF f.status = "ok"
  THEN [downloaded_filings |-> Range(f.downloaded_filings),
        last_cik |-> f.last_cik,
        last_filing_index |-> f.last_filing_index]
  ELSE [downloaded_filings |-> {}, last_cik |-> NoCik, last_filing_index |-> 0]

\* The key set a reader of the file sees.
CacheKeys(f) == load_download_cache(f).downloaded_filings

\* A plausible slip: the new keys replace the stored ones instead of being merged.
save_download_cache_overwrite(f, downloaded_filings, current_cik, current_filing_index) ==
  [status |-> "ok",
   downloaded_filings |-> ListOfSet(downloaded_filings),
   total_count |-> Cardinality(downloaded_filings),
   last_cik |-> current_cik,
   last_filing_index |-> current_filing_index]

\* A plausible slip: total_count is the number of keys handed in, not of the
\* merged set.
save_download_cache_count_new(f, downloaded_filings, current_cik, current_filing_index) ==
  LET existing_cache == load_download_cache(f).downloaded_filings
      all_downloaded == existing_cache \cup downloaded_filings
  IN [status |-> "ok",
      downloaded_filings |-> ListOfSet(all_downloaded),
      total_count |-> Cardinality(downloaded_filings),
      last_cik |-> current_cik,
      last_filing_index |-> current_filing_index]

\* The content save_download_cache writes over file f.
save_download_cache(f, downloaded_filings, current_cik, current_filing_index) ==
  LET existing_cache == load_download_cache(f).downloaded_filings
      all_downloaded == existing_cache \cup downloaded_filings
  IN [status |-> "ok",
      downloaded_filings |-> ListOfSet(all_downloaded),
      total_count |-> Cardinality(all_downloaded),
      last_cik |-> current_cik,
      last_filing_index |-> current_filing_index]

\* -------------------------------------------------------- progress tracker
EmptyMap == [c \in {} |-> 0]

RECURSIVE SumValues(_)
\* sum(d.values())
SumValues(m) ==
  IF DOMAIN m = {} THEN 0
  ELSE LET c == CHOOSE x \in DOMAIN m : TRUE
       IN m[c] + SumValues([x \in DOMAIN m \ {c} |-> m[x]])

ZeroProgress == [completed_adshs |-> 0, total_adshs |-> 0, last_processed_index |-> 0]

\* What load_progress_cache returns when the file is absent or unparsable.
DefaultProgress ==
  [cik_adsh_counts |-> EmptyMap,
   current_cik |-> NoCik,
   current_cik_progress |-> ZeroProgress,
   total_completed_adshs |-> 0]

load_progress_cache(f) == IF f.status = "ok" THEN f.data ELSE DefaultProgress

save_progress_cache(progress_data) == [status |-> "ok", data |-> progress_data]

\* d[k] = v on a Python dict.
MapSet(m, k, v) == [x \in DOMAIN m \cup {k} |-> IF x = k THEN v ELSE m[x]]

\* A plausible slip: the total is summed before the completed entity is
\* stored in cik_adsh_counts.
update_cik_progress_stale_total(f, cik, completed_adshs, total_adshs, last_processed_index, is_completed) ==
  LET progress_data == load_progress_cache(f)
      counts == IF is_completed
                THEN MapSet(progress_data.cik_adsh_counts, cik, total_adshs)
                ELSE progress_data.cik_adsh_counts
      total_completed == SumValues(progress_data.cik_adsh_counts)
                         + (IF is_completed THEN 0 ELSE completed_adshs)
  IN save_progress_cache(
       [cik_adsh_counts |-> counts,
        current_cik |-> IF is_completed THEN NoCik ELSE cik,
        current_cik_progress |->
          IF is_completed THEN ZeroProgress
          ELSE [completed_adshs |-> completed_adshs,
                total_adshs |-> total_adshs,
                last_processed_index |-> last_processed_index],
        total_completed_adshs |-> total_completed])

\* The content update_cik_progress writes over file f.
\* A plausible slip: marking an entity complete starts the map anew.
update_cik_progress_fresh_map(f, cik, completed_adshs, total_adshs, last_processed_index, is_completed) ==
  LET progress_data == load_progress_cache(f)
      counts == IF is_completed
                THEN MapSet(EmptyMap, cik, total_adshs)
                ELSE progress_data.cik_adsh_counts
      total_completed == SumValues(counts) + (IF is_completed THEN 0 ELSE completed_adshs)
  IN save_progress_cache(
       [cik_adsh_counts |-> counts,
        current_cik |-> IF is_completed THEN NoCik ELSE cik,
        current_cik_progress |->
          IF is_completed THEN ZeroProgress
          ELSE [completed_adshs |-> completed_adshs,
                total_adshs |-> total_adshs,
                last_processed_index |-> last_processed_index],
        total_completed_adshs |-> total_completed])

update_cik_progress(f, cik, completed_adshs, total_adshs, last_processed_index, is_completed) ==
  LET progress_data == load_progress_cache(f)
      counts == IF is_completed
                THEN MapSet(progress_data.cik_adsh_counts, cik, total_adshs)
                ELSE progress_data.cik_adsh_counts
      total_completed == SumValues(counts) + (IF is_completed THEN 0 ELSE completed_adshs)
  IN save_progress_cache(
       [cik_adsh_counts |-> counts,
        current_cik |-> IF is_completed THEN NoCik ELSE cik,
        current_cik_progress |->
          IF is_completed THEN ZeroProgress
          ELSE [completed_adshs |-> completed_adshs,
                total_adshs |-> total_adshs,
                last_processed_index |-> last_processed_index],
        total_completed_adshs |-> total_completed])

RECURSIVE FirstNotIn(_, _)
\* The first element of list s that is not in set D, '' when there is none.
FirstNotIn(s, D) ==
  IF s = <<>> THEN NoCik
  ELSE IF Head(s) \notin D THEN Head(s) ELSE FirstNotIn(Tail(s), D)

RECURSIVE LastNotIn(_, _)
\* A plausible slip: the scan keeps going and returns the last such element.
LastNotIn(s, D) ==
  IF s = <<>> THEN NoCik
  ELSE IF s[Len(s)] \notin D THEN s[Len(s)]
       ELSE LastNotIn(SubSeq(s, 1, Len(s) - 1), D)

\* A plausible slip: the current entity is resumed at 0, or the scan returns
\* the last uncompleted entity.
get_resume_info_slip(f, files) ==
  LET progress_data == load_progress_cache(f) IN
  IF progress_data.current_cik # NoCik
  THEN <<progress_data.current_cik, 0>>
  ELSE <<LastNotIn(files, DOMAIN progress_data.cik_adsh_counts), 0>>

\* (resume_cik, resume_index) for the list of CIK file stems `files`.
get_resume_info(f, files) ==
  LET progress_data == load_progress_cache(f)
      current_cik == progress_data.current_cik
      current_progress == progress_data.current_cik_progress
      completed_ciks == DOMAIN progress_data.cik_adsh_counts
  IN IF current_cik # NoCik
     THEN <<current_cik, current_progress.last_processed_index>>
     ELSE <<FirstNotIn(files, completed_ciks), 0>>

\* --------------------------------------------------- reconciliation engine
\* One entity's record in the analysis: its counts, status and, when it is not
\* complete, the rows to fetch. completion_percentage is in tenths of a percent.
AnalyzeCik(cik, adsh_records, downloaded_filings) ==
  LET Cached(r) == RowKey(r) \in downloaded_filings
      NotCached(r) == RowKey(r) \notin downloaded_filings
      downloaded_count == Len(SelectSeq(adsh_records, Cached))
      missing_records == SelectSeq(adsh_records, NotCached)
      total_adshs == Len(adsh_records)
  IN IF downloaded_count = 0
     THEN [cik |-> cik, total_adshs |-> total_adshs, downloaded_adshs |-> 0,
           missing_adshs |-> total_adshs, completion_percentage |-> 0,
           status |-> "not_downloaded", adsh_records |-> adsh_records]
     ELSE IF downloaded_count < total_adshs
     THEN [cik |-> cik, total_adshs |-> total_adshs,
           downloaded_adshs |-> downloaded_count,
           missing_adshs |-> total_adshs - downloaded_count,
           completion_percentage |-> (downloaded_count * 1000) \div total_adshs,
           status |-> "partially_downloaded", missing_records |-> missing_records]
     ELSE [cik |-> cik, total_adshs |-> total_adshs,
           downloaded_adshs |-> downloaded_count,
           missing_adshs |-> 0, completion_percentage |-> 1000,
           status |-> "complete"]

\* A plausible slip: '<=' for '<', so a complete entity is filed as partial.
AnalyzeCikOffByOne(cik, adsh_records, downloaded_filings) ==
  LET r == AnalyzeCik(cik, adsh_records, downloaded_filings) IN
  IF r.status = "complete"
  THEN [cik |-> cik, total_adshs |-> r.total_adshs,
        downloaded_adshs |-> r.downloaded_adshs, missing_adshs |-> 0,
        completion_percentage |-> 1000,
        status |-> "partially_downloaded", missing_records |-> <<>>]
  ELSE r

\* The analysis of one entity, as the loop body of analyze_download_status.
AnalyzeOne(cik, adsh_records, downloaded_filings) ==
  AnalyzeCik(cik, adsh_records, downloaded_filings)

RECURSIVE analyze_download_status(_, _)
\* actual_data is the dict as the list of its (cik, rows) items, in dict order.
analyze_download_status(actual_data, downloaded_filings) ==
  IF actual_data = <<>>
  THEN [missing_downloads |-> <<>>, not_downloaded_ciks |-> <<>>, complete_ciks |-> <<>>]
  ELSE LET rec == AnalyzeOne(Head(actual_data)[1], Head(actual_data)[2], downloaded_filings)
           rest == analyze_download_status(Tail(actual_data), downloaded_filings)
       IN [missing_downloads |->
             (IF rec.status = "partially_downloaded" THEN <<rec>> ELSE <<>>)
               \o rest.missing_downloads,
           not_downloaded_ciks |->
             (IF rec.status = "not_downloaded" THEN <<rec>> ELSE <<>>)
               \o rest.not_downloaded_ciks,
           complete_ciks |->
             (IF rec.status = "complete" THEN <<rec>> ELSE <<>>)
               \o rest.complete_ciks]

\* One entry of the list handed to the downloader.
Adsh(r) == [cik |-> r.cik, accession_number |-> r.accession_number,
            form_type |-> r.form_type,
            cache_key |-> get_filing_cache_key(r.cik, r.accession_number)]

\* A plausible slip: the entries are produced last row first.
AdshList_reversed(rows) == [j \in 1..Len(rows) |-> Adsh(rows[Len(rows) - j + 1])]

AdshList(rows) == [j \in 1..Len(rows) |-> Adsh(rows[j])]

RECURSIVE FlattenMissing(_)
FlattenMissing(records) ==
  IF records = <<>> THEN <<>>
  ELSE AdshList(Head(records).missing_records) \o FlattenMissing(Tail(records))

RECURSIVE FlattenAll(_)
FlattenAll(records) ==
  IF records = <<>> THEN <<>>
  ELSE AdshList(Head(records).adsh_records) \o FlattenAll(Tail(records))

\* A plausible slip: the entities that were not downloaded at all are left out.
get_missing_adshs_partial_only(missing_downloads, not_downloaded_ciks) ==
  FlattenMissing(missing_downloads)

get_missing_adshs_for_download(missing_downloads, not_downloaded_ciks) ==
  FlattenMissing(missing_downloads) \o FlattenAll(not_downloaded_ciks)

\* The entries whose key the cache file does not hold, in order.
filter_already_downloaded(adshs, f) ==
  LET downloaded_cache == load_download_cache(f).downloaded_filings
      Todo(a) == a.cache_key \notin downloaded_cache
  IN SelectSeq(adshs, Todo)

\* The missing list check_download_progress returns for the dict actual_data.
check_download_progress(actual_data, f) ==
  IF actual_data = <<>> THEN <<>>
  ELSE LET downloaded_filings == load_download_cache(f).downloaded_filings
           a == analyze_download_status(actual_data, downloaded_filings)
           all_missing_adshs ==
             get_missing_adshs_for_download(a.missing_downloads, a.not_downloaded_ciks)
       IN filter_already_downloaded(all_missing_adshs, f)

\* A plausible slip: the comparison lets a cache that is one filing short pass.
verify_download_completion_one_short(total_adshs, f) ==
  LET downloaded_count == IF f.status = "ok" THEN f.total_count ELSE 0
  IN downloaded_count + 1 >= total_adshs

\* The (total_count, total rows) comparison of verify_download_completion:
\* total_count is read from the file, 0 when it is absent or unparsable.
verify_download_completion(total_adshs, f) ==
  LET downloaded_count == IF f.status = "ok" THEN f.total_count ELSE 0
  IN downloaded_count >= total_adshs

\* ==================================================================== state
VARIABLES
  inv,           \* the inventory: CIK file stem -> number of rows of the file
  cacheFile,     \* local_cache/download_cache.json
  progressFile,  \* local_cache/progress_cache.json
  failedFile,    \* local_cache/failed_downloads.json
  docs,          \* keys of the filings saved under output/raw_13f_filings
  pc,            \* where the running process is; "idle" when there is none
  loc,           \* the locals of the running process
  g,             \* history of the sessions (not program state)
  arg,           \* input of a function call (specifications of pure functions)
  ret            \* its result

vars == <<inv, cacheFile, progressFile, failedFile, docs, pc, loc, g, arg, ret>>

NoLoc == [kind |-> "none"]
NoArg == [op |-> "none"]

\* All keys of the inventory i.
KeysOf(i) == {RowKey(RowsOf(c, i[c])[j]) : <<c, j>> \in {<<c, j>> \in Ciks \X (1..MaxItems) : j <= i[c]}}
InvKeys == KeysOf(inv)
\* len(df) summed over the CIK files.
RECURSIVE SumRows(_, _)
SumRows(i, files) == IF files = <<>> THEN 0 ELSE i[Head(files)] + SumRows(i, Tail(files))
\* get_actual_adsh_data: the dict cik -> rows, in the order of the files.
get_actual_adsh_data(i, files) == [k \in 1..Len(files) |-> <<files[k], RowsOf(files[k], i[files[k]])>>]

Ghost0 ==
  [sessions |-> 0, kind |-> "none", outcome |-> "none", fetches |-> 0,
   failed |-> FALSE, afterEnded |-> FALSE, afterKill |-> FALSE,
   startFull |-> FALSE, scen |-> "fresh", killCik |-> NoCik, killN |-> 0,
   lostPending |-> {}, gapFailed |-> {}, raised |-> FALSE]

MainInit ==
  /\ inv \in {i \in [Ciks -> 1..MaxItems] : SumRows(i, cik_files) <= MaxTotalRows}
  /\ cacheFile = AbsentFile
  /\ progressFile = AbsentFile
  /\ failedFile = AbsentFile
  /\ docs = {}
  /\ pc = "idle"
  /\ loc = NoLoc
  /\ g = Ghost0

Init == MainInit /\ arg = NoArg /\ ret = NoArg

\* ------------------------------------------------------- session history
\* The history record at the start of a session of the given kind.
BeginSession(kind) ==
  [g EXCEPT
     !.sessions = @ + 1,
     !.kind = kind,
     !.outcome = "running",
     !.fetches = 0,
     !.failed = FALSE,
     !.afterEnded = (kind = "main" /\ g.kind = "main"
                     /\ g.outcome \in {"ended", "early_exit"}),
     !.afterKill = (g.outcome = "killed"),
     !.startFull = (InvKeys \subseteq CacheKeys(cacheFile)),
     !.lostPending = IF g.outcome = "killed" THEN @ ELSE {},
     !.gapFailed = {},
     !.raised = FALSE,
     !.killCik = IF kind = "main" /\ g.scen = "killed_mid" THEN @ ELSE NoCik,
     !.killN = IF kind = "main" /\ g.scen = "killed_mid" THEN @ ELSE 0,
     !.scen = IF kind # "main" THEN "other"
              ELSE CASE g.scen = "fresh" -> "first"
                     [] g.scen = "first_ended" -> "second"
                     [] g.scen = "killed_mid" -> "resumed"
                     [] OTHER -> "other"]

\* ... when the session returns with the given outcome.
EndSession(h, outcome) ==
  [h EXCEPT
     !.outcome = outcome,
     !.scen = CASE h.scen = "first" /\ outcome = "ended" -> "first_ended"
                [] h.scen = "second" -> "second_ended"
                [] h.scen = "resumed" /\ outcome = "ended" -> "resumed_ended"
                [] OTHER -> "other"]

\* ... after one GET.
Fetched(h, ok) ==
  [h EXCEPT !.fetches = @ + 1,
            !.failed = @ \/ ~ok,
            !.scen = IF ok THEN @ ELSE "other",
            !.killCik = IF ok THEN @ ELSE NoCik,
            !.killN = IF ok THEN @ ELSE 0]

\* ... after an exception in the body of the outer loop.
Raised(h) ==
  [h EXCEPT !.raised = TRUE, !.scen = "other", !.killCik = NoCik, !.killN = 0]

\* ... when the process is terminated; lost are the saved keys it had not
\* persisted, atBoundary says it died between two filings of an entity.
Died(h, lost, atBoundary) ==
  [h EXCEPT
     !.outcome = "killed",
     !.lostPending = lost,
     !.scen = IF h.scen = "first" /\ atBoundary THEN "killed_mid" ELSE "other",
     !.killCik = IF h.scen = "first" /\ atBoundary THEN cik_files[loc.i] ELSE NoCik,
     !.killN = IF h.scen = "first" /\ atBoundary THEN loc.filing_index ELSE 0]

\* A plausible slip: the run reports whether every filing was fetched.
ReturnValue_all_succeeded(kind, outcome) ==
  CASE kind = "main" /\ outcome = "no_inventory" -> FALSE
    [] kind = "main" /\ outcome = "early_exit" -> TRUE
    [] kind = "main" /\ outcome = "ended" -> ~g.failed
    [] kind = "gap" /\ outcome = "gap_failed" -> FALSE
    [] OTHER -> TRUE

\* What the session returned to its caller: download_raw_13f_filings returns
\* False when the ADSH directory is missing and True from its two other
\* returns; ensure_all_adshs_downloaded returns False when it fetched and no
\* fetch succeeded, True otherwise.
ReturnValue(kind, outcome) ==
  CASE kind = "main" /\ outcome = "no_inventory" -> FALSE
    [] kind = "main" /\ outcome = "early_exit" -> TRUE
    [] kind = "main" /\ outcome = "ended" -> TRUE
    [] kind = "gap" /\ outcome = "gap_failed" -> FALSE
    [] OTHER -> TRUE

\* The session has returned (it is not running and was not terminated).
HasReturned == g.outcome \notin {"none", "running", "killed"}

\* ============================================= download_raw_13f_filings
TotalAdshs == SumRows(inv, cik_files)

\* The ADSH directory does not exist: the run returns False.
StartRunNoInventory ==
  /\ pc = "idle"
  /\ g.sessions < MaxRuns
  /\ g' = EndSession(BeginSession("main"), "no_inventory")
  /\ UNCHANGED <<inv, failedFile, cacheFile, progressFile, docs, pc, loc, arg, ret>>

\* verify_download_completion says the download is complete: return True.
StartRunComplete ==
  /\ pc = "idle"
  /\ g.sessions < MaxRuns
  /\ verify_download_completion(TotalAdshs, cacheFile)
  /\ g' = EndSession(BeginSession("main"), "early_exit")
  /\ UNCHANGED <<inv, failedFile, cacheFile, progressFile, docs, pc, loc, arg, ret>>

\* Otherwise: the resume point is read and the loop over the CIK files begins.
StartRun ==
  /\ pc = "idle"
  /\ g.sessions < MaxRuns
  /\ ~verify_download_completion(TotalAdshs, cacheFile)
  /\ LET r == get_resume_info(progressFile, cik_files) IN
     loc' = [kind |-> "main",
             resume_cik |-> r[1],
             resume_index |-> r[2],
             i |-> 1,
             resume_from_index |-> 0,
             filing_index |-> 0,
             completed_adshs_for_cik |-> 0,
             newly_downloaded |-> {},
             total_filings |-> 0]
  /\ pc' = "cik"
  /\ g' = BeginSession("main")
  /\ UNCHANGED <<inv, failedFile, cacheFile, progressFile, docs, arg, ret>>

\* The CIK file the outer loop is at, and its rows.
CurCik == cik_files[loc.i]
CurTotal == inv[CurCik]
CurRows == RowsOf(CurCik, CurTotal)

\* progress_data.get('completed_ciks', []): no writer of the progress file
\* sets this entry (the completed entities are the keys of cik_adsh_counts).
CompletedCiksEntry(progress_data) == {}

\* The head of the outer loop body: the resume index of this entity, the
\* skip of a completed entity, the counters.
CikStart ==
  /\ pc = "cik"
  /\ IF CurCik \in CompletedCiksEntry(load_progress_cache(progressFile))
     THEN /\ pc' = IF loc.i = Len(cik_files) THEN "end" ELSE "cik"
          /\ loc' = [loc EXCEPT !.i = IF loc.i = Len(cik_files) THEN @ ELSE @ + 1]
     ELSE /\ pc' = "items"
          /\ loc' = [loc EXCEPT
                       !.resume_from_index =
                          IF CurCik = loc.resume_cik THEN loc.resume_index ELSE 0,
                       !.filing_index = 0,
                       !.completed_adshs_for_cik = 0]
  /\ UNCHANGED <<inv, failedFile, cacheFile, progressFile, docs, g, arg, ret>>

\* The filing the inner loop comes to next.
NextIndex == loc.filing_index + 1
NextRow == CurRows[NextIndex]
NextKey == get_filing_cache_key(NextRow.cik, NextRow.accession_number)
InItems == pc = "items" /\ loc.filing_index < CurTotal
\* A plausible slip: the cache is not looked up before the fetch.
ToFetch_ignore_cache ==
  /\ InItems
  /\ NextIndex > loc.resume_from_index

\* It is past the resume point and its key is not in the cache: it is fetched.
ToFetch ==
  /\ InItems
  /\ NextIndex > loc.resume_from_index
  /\ NextKey \notin load_download_cache(cacheFile).downloaded_filings

\* A filing at or before the resume point is passed over.
FilingBeforeResume ==
  /\ InItems
  /\ NextIndex <= loc.resume_from_index
  /\ loc' = [loc EXCEPT !.filing_index = NextIndex]
  /\ UNCHANGED <<inv, failedFile, cacheFile, progressFile, docs, pc, g, arg, ret>>

\* A filing whose key is in the cache is counted as skipped (and `continue`
\* leaves the progress tracker as it is).
FilingCached ==
  /\ InItems
  /\ NextIndex > loc.resume_from_index
  /\ NextKey \in load_download_cache(cacheFile).downloaded_filings
  /\ loc' = [loc EXCEPT !.filing_index = NextIndex,
                        !.total_filings = @ + 1,
                        !.completed_adshs_for_cik = @ + 1]
  /\ UNCHANGED <<inv, failedFile, cacheFile, progressFile, docs, pc, g, arg, ret>>

\* A plausible slip: the key is put in newly_downloaded whatever the result.
FilingStep_add_always(ok) ==
  LET completed == loc.completed_adshs_for_cik + (IF ok THEN 1 ELSE 0)
      newly == loc.newly_downloaded \cup {NextKey}
      flush == (Cardinality(newly) % FlushInterval = 0) /\ newly # {}
  IN [docs |-> IF ok THEN docs \cup {NextKey} ELSE docs,
      completed |-> completed,
      pending |-> newly,
      progress |-> update_cik_progress(progressFile, CurCik, completed, CurTotal,
                                       NextIndex, completed >= CurTotal),
      flush |-> flush,
      cache |-> IF flush
                THEN save_download_cache(cacheFile, newly, CurCik, NextIndex)
                ELSE cacheFile,
      newly |-> IF flush THEN {} ELSE newly]

\* What the rest of the loop body does for a fetched filing, ok saying whether
\* download_single_filing returned a result: the counters, the progress
\* update, the periodic flush.
\* A plausible slip: a failed fetch is counted as completed too.
FilingStep_count_failed(ok) ==
  LET completed == loc.completed_adshs_for_cik + 1
      newly == IF ok THEN loc.newly_downloaded \cup {NextKey} ELSE loc.newly_downloaded
      flush == (Cardinality(newly) % FlushInterval = 0) /\ newly # {}
  IN [docs |-> IF ok THEN docs \cup {NextKey} ELSE docs,
      completed |-> completed,
      pending |-> newly,
      progress |-> update_cik_progress(progressFile, CurCik, completed, CurTotal,
                                       NextIndex, completed >= CurTotal),
      flush |-> flush,
      cache |-> IF flush
                THEN save_download_cache(cacheFile, newly, CurCik, NextIndex)
                ELSE cacheFile,
      newly |-> IF flush THEN {} ELSE newly]

\* What the loop body does with a filing it fetches: the result is counted,
\* the progress file is updated, the periodic flush is made when it is due.
FilingStep(ok) ==
  LET completed == loc.completed_adshs_for_cik + (IF ok THEN 1 ELSE 0)
      newly == IF ok THEN loc.newly_downloaded \cup {NextKey} ELSE loc.newly_downloaded
      flush == (Cardinality(newly) % FlushInterval = 0) /\ newly # {}
  IN [docs |-> IF ok THEN docs \cup {NextKey} ELSE docs,
      completed |-> completed,
      pending |-> newly,
      progress |-> update_cik_progress(progressFile, CurCik, completed, CurTotal,
                                       NextIndex, completed >= CurTotal),
      flush |-> flush,
      cache |-> IF flush
                THEN save_download_cache(cacheFile, newly, CurCik, NextIndex)
                ELSE cacheFile,
      newly |-> IF flush THEN {} ELSE newly]

\* A plausible slip: a filing whose fetch failed is fetched again at once.
FilingDownload_retry(ok) ==
  /\ ToFetch
  /\ LET e == FilingStep(ok) IN
       /\ docs' = e.docs
       /\ progressFile' = e.progress
       /\ cacheFile' = e.cache
       /\ loc' = [loc EXCEPT !.filing_index = IF ok THEN NextIndex ELSE @,
                             !.total_filings = @ + 1,
                             !.completed_adshs_for_cik = e.completed,
                             !.newly_downloaded = e.newly]
  /\ g' = Fetched(g, ok)
  /\ UNCHANGED <<inv, failedFile, pc, arg, ret>>

FilingDownload(ok) ==
  /\ ToFetch
  /\ LET e == FilingStep(ok) IN
       /\ docs' = e.docs
       /\ progressFile' = e.progress
       /\ cacheFile' = e.cache
       /\ loc' = [loc EXCEPT !.filing_index = NextIndex,
                             !.total_filings = @ + 1,
                             !.completed_adshs_for_cik = e.completed,
                             !.newly_downloaded = e.newly]
  /\ g' = Fetched(g, ok)
  /\ UNCHANGED <<inv, failedFile, pc, arg, ret>>

\* After the rows of the file: the entity is marked completed when the count
\* of this run reaches its total; then the next file, or the end of the loop.
CikEnd ==
  /\ pc = "items"
  /\ loc.filing_index = CurTotal
  /\ progressFile' =
       IF loc.completed_adshs_for_cik >= CurTotal
       THEN update_cik_progress(progressFile, CurCik, loc.completed_adshs_for_cik,
                                CurTotal, CurTotal, TRUE)
       ELSE progressFile
  /\ pc' = IF loc.i = Len(cik_files) THEN "end" ELSE "cik"
  /\ loc' = [loc EXCEPT !.i = IF loc.i = Len(cik_files) THEN @ ELSE @ + 1,
                        !.resume_from_index = 0,
                        !.filing_index = 0,
                        !.completed_adshs_for_cik = 0]
  /\ UNCHANGED <<inv, failedFile, cacheFile, docs, g, arg, ret>>

\* The step to the next CIK file, or out of the loop after the last one.
NextCik ==
  /\ pc' = IF loc.i = Len(cik_files) THEN "end" ELSE "cik"
  /\ loc' = [loc EXCEPT !.i = IF loc.i = Len(cik_files) THEN @ ELSE @ + 1,
                        !.resume_from_index = 0,
                        !.filing_index = 0,
                        !.completed_adshs_for_cik = 0]

\* A plausible slip: the exception leaves the loop and ends the run.
EntityRaiseAtRead_abort ==
  /\ pc = "cik"
  /\ pc' = "idle"
  /\ loc' = NoLoc
  /\ g' = EndSession(Raised(g), "aborted")
  /\ UNCHANGED <<inv, failedFile, cacheFile, progressFile, docs, arg, ret>>

\* pd.read_csv raises on the CIK file (the one statement of the loop body
\* that can raise on an inventory extract_13f_filing_adshs wrote): the except
\* clause logs the error and the loop continues with the next file.
EntityRaiseAtRead ==
  /\ pc = "cik"
  /\ NextCik
  /\ g' = Raised(g)
  /\ UNCHANGED <<inv, failedFile, cacheFile, progressFile, docs, arg, ret>>

\* A plausible slip: the run returns without the final flush of the pending keys.
EndRun_no_final_flush ==
  /\ pc = "end"
  /\ cacheFile' = cacheFile
  /\ pc' = "idle"
  /\ loc' = NoLoc
  /\ g' = EndSession(g, "ended")
  /\ UNCHANGED <<inv, failedFile, progressFile, docs, arg, ret>>

\* After the loop: the final flush; the run returns True.
EndRun ==
  /\ pc = "end"
  /\ cacheFile' =
       IF loc.newly_downloaded # {}
       THEN save_download_cache(cacheFile, loc.newly_downloaded, CurCik, loc.total_filings)
       ELSE cacheFile
  /\ pc' = "idle"
  /\ loc' = NoLoc
  /\ g' = EndSession(g, "ended")
  /\ UNCHANGED <<inv, failedFile, progressFile, docs, arg, ret>>

\* ========================================== ensure_all_adshs_downloaded
\* The list of missing filings the pass starts from.
MissingNow == check_download_progress(get_actual_adsh_data(inv, cik_files), cacheFile)

\* Nothing is missing: the pass returns True without fetching.
GapNothingMissing ==
  /\ pc = "idle"
  /\ g.sessions < MaxRuns
  /\ MissingNow = <<>>
  /\ g' = EndSession(BeginSession("gap"), "nothing_missing")
  /\ UNCHANGED <<inv, failedFile, cacheFile, progressFile, docs, pc, loc, arg, ret>>

\* The user answers 'n': the pass returns True without fetching.
GapDeclined ==
  /\ pc = "idle"
  /\ g.sessions < MaxRuns
  /\ MissingNow # <<>>
  /\ g' = EndSession(BeginSession("gap"), "declined")
  /\ UNCHANGED <<inv, failedFile, cacheFile, progressFile, docs, pc, loc, arg, ret>>

\* Otherwise download_missing_adshs starts on the list.
GapStart ==
  /\ pc = "idle"
  /\ g.sessions < MaxRuns
  /\ MissingNow # <<>>
  /\ loc' = [kind |-> "gap",
             adshs |-> MissingNow,
             i |-> 0,
             successful_downloads |-> 0,
             newly_downloaded |-> {},
             failed_downloads_list |-> <<>>,
             last_cause |-> "none"]
  /\ pc' = "gap"
  /\ g' = BeginSession("gap")
  /\ UNCHANGED <<inv, failedFile, cacheFile, progressFile, docs, arg, ret>>

GapNext == loc.adshs[loc.i + 1]
InGap == pc = "gap" /\ loc.i < Len(loc.adshs)

\* What one pass of the loop body of download_missing_adshs does.
GapStep(ok) ==
  LET newly == IF ok THEN loc.newly_downloaded \cup {GapNext.cache_key}
               ELSE loc.newly_downloaded
      flush == (Cardinality(newly) % GapFlushInterval = 0) /\ newly # {}
  IN [docs |-> IF ok THEN docs \cup {GapNext.cache_key} ELSE docs,
      pending |-> newly,
      flush |-> flush,
      cache |-> IF flush
                THEN save_download_cache(cacheFile, newly, GapNext.cik, loc.i + 1)
                ELSE cacheFile,
      newly |-> IF flush THEN {} ELSE newly]

\* Why download_single_filing returned None: download_file saw a status
\* other than 200, requests.get raised, or _save_raw_filing raised.
Causes == {"http_status", "transport_error", "save_raises"}

\* The entry appended to failed_downloads_list (without its timestamp).
FailureRecord(adsh) ==
  [cik |-> adsh.cik,
   accession_number |-> adsh.accession_number,
   form_type |-> adsh.form_type,
   error_message |-> "Download failed"]

\* The content save_failed_downloads_json writes over the file.
save_failed_downloads_json(failed_downloads) ==
  [status |-> "ok",
   total_failed |-> Len(failed_downloads),
   failed_downloads |-> failed_downloads]

\* What get_failed_downloads_summary reads from the file.
FailureLog(f) == IF f.status = "ok" THEN f.failed_downloads ELSE <<>>

\* A plausible slip: the pass records its fetch in the progress file as the
\* main loop does.
GapDownload_updates_progress(ok) ==
  /\ InGap
  /\ \E cause \in (IF ok THEN {"none"} ELSE Causes) :
       LET e == GapStep(ok) IN
       /\ docs' = e.docs
       /\ cacheFile' = e.cache
       /\ loc' = [loc EXCEPT !.i = @ + 1,
                             !.successful_downloads = @ + (IF ok THEN 1 ELSE 0),
                             !.newly_downloaded = e.newly,
                             !.failed_downloads_list =
                                IF ok THEN @ ELSE Append(@, FailureRecord(GapNext)),
                             !.last_cause = cause]
  /\ progressFile' = update_cik_progress(progressFile, cik_files[1], loc.i + 1,
                                         Len(loc.adshs), loc.i + 1, FALSE)
  /\ g' = [Fetched(g, ok) EXCEPT
             !.gapFailed = IF ok THEN @ ELSE @ \cup {GapNext.cache_key}]
  /\ UNCHANGED <<inv, failedFile, pc, arg, ret>>

GapDownload(ok) ==
  /\ InGap
  /\ \E cause \in (IF ok THEN {"none"} ELSE Causes) :
       LET e == GapStep(ok) IN
       /\ docs' = e.docs
       /\ cacheFile' = e.cache
       /\ loc' = [loc EXCEPT !.i = @ + 1,
                             !.successful_downloads = @ + (IF ok THEN 1 ELSE 0),
                             !.newly_downloaded = e.newly,
                             !.failed_downloads_list =
                                IF ok THEN @ ELSE Append(@, FailureRecord(GapNext)),
                             !.last_cause = cause]
  /\ g' = [Fetched(g, ok) EXCEPT
             !.gapFailed = IF ok THEN @ ELSE @ \cup {GapNext.cache_key}]
  /\ UNCHANGED <<inv, failedFile, progressFile, pc, arg, ret>>

\* A plausible slip: the pass returns without the final flush of the pending keys.
GapEnd_no_final_flush ==
  /\ pc = "gap"
  /\ loc.i = Len(loc.adshs)
  /\ cacheFile' = cacheFile
  /\ failedFile' =
       IF loc.failed_downloads_list # <<>>
       THEN save_failed_downloads_json(loc.failed_downloads_list)
       ELSE failedFile
  /\ pc' = "idle"
  /\ loc' = NoLoc
  /\ g' = EndSession(g, IF loc.successful_downloads > 0 THEN "ended" ELSE "gap_failed")
  /\ UNCHANGED <<inv, progressFile, docs, arg, ret>>

\* After the list: the final flush and the failure log; the pass returns
\* whether any fetch succeeded.
GapEnd ==
  /\ pc = "gap"
  /\ loc.i = Len(loc.adshs)
  /\ cacheFile' =
       IF loc.newly_downloaded # {}
       THEN save_download_cache(cacheFile, loc.newly_downloaded,
                                loc.adshs[Len(loc.adshs)].cik, Len(loc.adshs))
       ELSE cacheFile
  /\ failedFile' =
       IF loc.failed_downloads_list # <<>>
       THEN save_failed_downloads_json(loc.failed_downloads_list)
       ELSE failedFile
  /\ pc' = "idle"
  /\ loc' = NoLoc
  /\ g' = EndSession(g, IF loc.successful_downloads > 0 THEN "ended" ELSE "gap_failed")
  /\ UNCHANGED <<inv, progressFile, docs, arg, ret>>

\* ================================================= process termination
\* The process is gone: its locals are lost, the files stay as they are.
Gone == pc' = "idle" /\ loc' = NoLoc

\* Terminated between two steps.
Kill ==
  /\ pc # "idle"
  /\ Gone
  /\ g' = Died(g, loc.newly_downloaded,
               pc = "items" /\ loc.filing_index >= 1 /\ loc.filing_index < CurTotal)
  /\ UNCHANGED <<inv, failedFile, cacheFile, progressFile, docs, arg, ret>>

\* Terminated after download_single_filing saved the document and before the
\* loop body recorded anything.
KillAfterSave ==
  /\ \/ /\ ToFetch
        /\ docs' = docs \cup {NextKey}
        /\ g' = Died(Fetched(g, TRUE), loc.newly_downloaded \cup {NextKey}, FALSE)
     \/ /\ InGap
        /\ docs' = docs \cup {GapNext.cache_key}
        /\ g' = Died(Fetched(g, TRUE), loc.newly_downloaded \cup {GapNext.cache_key}, FALSE)
  /\ Gone
  /\ UNCHANGED <<inv, failedFile, cacheFile, progressFile, arg, ret>>

\* Terminated inside save_progress_cache, after open(progress_file, 'w')
\* truncated the file and before json.dump wrote it out.
KillInProgressWrite ==
  /\ \/ \E ok \in BOOLEAN :
          /\ ToFetch
          /\ docs' = FilingStep(ok).docs
          /\ g' = Died(Fetched(g, ok), FilingStep(ok).pending, FALSE)
     \/ /\ pc = "items"
        /\ loc.filing_index = CurTotal
        /\ loc.completed_adshs_for_cik >= CurTotal
        /\ docs' = docs
        /\ g' = Died(g, loc.newly_downloaded, FALSE)
  /\ progressFile' = CorruptFile
  /\ Gone
  /\ UNCHANGED <<inv, failedFile, cacheFile, arg, ret>>

\* Terminated after the progress update of a filing and before the periodic
\* flush that was due.
KillBeforeFlush ==
  /\ ToFetch
  /\ FilingStep(TRUE).flush
  /\ docs' = FilingStep(TRUE).docs
  /\ progressFile' = FilingStep(TRUE).progress
  /\ g' = Died(Fetched(g, TRUE), FilingStep(TRUE).pending, FALSE)
  /\ Gone
  /\ UNCHANGED <<inv, failedFile, cacheFile, arg, ret>>

\* Terminated inside save_download_cache, after open(cache_file, 'w')
\* truncated the file and before json.dump wrote it out.
KillInCacheWrite ==
  /\ \/ /\ ToFetch
        /\ FilingStep(TRUE).flush
        /\ docs' = FilingStep(TRUE).docs
        /\ progressFile' = FilingStep(TRUE).progress
        /\ g' = Died(Fetched(g, TRUE), FilingStep(TRUE).pending, FALSE)
     \/ /\ pc = "end"
        /\ loc.newly_downloaded # {}
        /\ UNCHANGED <<docs, progressFile>>
        /\ g' = Died(g, loc.newly_downloaded, FALSE)
     \/ /\ InGap
        /\ GapStep(TRUE).flush
        /\ docs' = GapStep(TRUE).docs
        /\ UNCHANGED progressFile
        /\ g' = Died(Fetched(g, TRUE), GapStep(TRUE).pending, FALSE)
     \/ /\ pc = "gap"
        /\ loc.i = Len(loc.adshs)
        /\ loc.newly_downloaded # {}
        /\ UNCHANGED <<docs, progressFile>>
        /\ g' = Died(g, loc.newly_downloaded, FALSE)
  /\ cacheFile' = CorruptFile
  /\ Gone
  /\ UNCHANGED <<inv, failedFile, arg, ret>>

\* Terminated inside save_failed_downloads_json, after open(..., 'w')
\* truncated the file and before json.dump wrote it out.
KillInFailedWrite ==
  /\ pc = "gap"
  /\ loc.i = Len(loc.adshs)
  /\ loc.failed_downloads_list # <<>>
  /\ cacheFile' =
       IF loc.newly_downloaded # {}
       THEN save_download_cache(cacheFile, loc.newly_downloaded,
                                loc.adshs[Len(loc.adshs)].cik, Len(loc.adshs))
       ELSE cacheFile
  /\ failedFile' = CorruptFile
  /\ Gone
  /\ g' = Died(g, {}, FALSE)
  /\ UNCHANGED <<inv, progressFile, docs, arg, ret>>

Terminated ==
  \/ Kill
  \/ KillAfterSave
  \/ KillInProgressWrite
  \/ KillBeforeFlush
  \/ KillInCacheWrite
  \/ KillInFailedWrite

\* ===================================================== the specification
Next ==
  \/ StartRunNoInventory
  \/ StartRunComplete
  \/ StartRun
  \/ CikStart
  \/ FilingBeforeResume
  \/ FilingCached
  \/ \E ok \in BOOLEAN : FilingDownload(ok)
  \/ CikEnd
  \/ EntityRaiseAtRead
  \/ EndRun
  \/ GapNothingMissing
  \/ GapDeclined
  \/ GapStart
  \/ \E ok \in BOOLEAN : GapDownload(ok)
  \/ GapEnd
  \/ Terminated

Spec == Init /\ [][Next]_vars

\* ============================================ specifications of functions
\* The main variables of a specification that only calls functions.
Quiet ==
  /\ inv = [c \in Ciks |-> 1]
  /\ failedFile = AbsentFile
  /\ docs = {}
  /\ pc = "idle"
  /\ loc = NoLoc
  /\ g = Ghost0

\* The keys the calls below draw from: MaxRecs filings for each entity.
KeyUniverse == {get_filing_cache_key(RowCik(c), j) : <<c, j>> \in Ciks \X (1..MaxRecs)}

\* The keys of one entity: what the calls of SpecCache draw from.
CacheCallKeys == {get_filing_cache_key(RowCik(cik_files[1]), j) : j \in 1..MaxRecs}

\* ------------------------------------------------------------ SpecCache
\* save_download_cache called MaxCalls times on a cache that holds any key set.
CacheInit ==
  /\ Quiet
  /\ progressFile = AbsentFile
  /\ cacheFile \in {AbsentFile}
       \cup {save_download_cache(AbsentFile, S, NoCik, 0) : S \in SUBSET CacheCallKeys}
  /\ arg = [op |-> "save_download_cache", S |-> CacheKeys(cacheFile), calls |-> <<>>]
  /\ ret = NoArg

CallSave(A, cur) ==
  /\ arg.op = "save_download_cache"
  /\ Len(arg.calls) < MaxCalls
  /\ cacheFile' = save_download_cache(cacheFile, A, cur[1], cur[2])
  /\ arg' = [arg EXCEPT !.calls = Append(@, [keys |-> A, after |-> CacheKeys(cacheFile')])]
  /\ UNCHANGED <<inv, failedFile, progressFile, docs, pc, loc, g, ret>>

CacheNext ==
  \E A \in SUBSET CacheCallKeys :
    \E cur \in {<<NoCik, 0>>, <<cik_files[1], 1>>} : CallSave(A, cur)

SpecCache == CacheInit /\ [][CacheNext]_vars

\* ---------------------------------------------------------- SpecAnalyze
\* analyze_download_status and get_missing_adshs_for_download called on any
\* inventory (every CIK file has at least one row: extract_filing_adshs
\* creates a file when it writes its first row) and any cache key set.
Inventories == [Ciks -> 1..MaxRecs]
ActualData(i) == [k \in 1..Len(cik_files) |-> <<cik_files[k], RowsOf(cik_files[k], i[cik_files[k]])>>]

AnalyzeInit ==
  /\ Quiet
  /\ progressFile = AbsentFile
  /\ cacheFile \in {AbsentFile}
       \cup {save_download_cache(AbsentFile, S, NoCik, 0) : S \in SUBSET KeyUniverse}
  /\ \E i \in Inventories : arg = [op |-> "analyze", actual_data |-> ActualData(i)]
  /\ ret = NoArg

CallAnalyze ==
  /\ arg.op = "analyze"
  /\ ret = NoArg
  /\ LET downloaded_filings == load_download_cache(cacheFile).downloaded_filings
         a == analyze_download_status(arg.actual_data, downloaded_filings)
     IN ret' = [op |-> "analyze",
                downloaded_filings |-> downloaded_filings,
                analysis |-> a,
                all_adshs |-> get_missing_adshs_for_download(a.missing_downloads,
                                                             a.not_downloaded_ciks)]
  /\ UNCHANGED <<inv, failedFile, cacheFile, progressFile, docs, pc, loc, g, arg>>

SpecAnalyze == AnalyzeInit /\ [][CallAnalyze]_vars

\* ----------------------------------------------------------- SpecResume
\* get_resume_info called on any progress file and any list of CIK files.
Lists == {<<>>} \cup {<<c>> : c \in Ciks}
           \cup {<<c, d>> : <<c, d>> \in {x \in Ciks \X Ciks : x[1] # x[2]}}
           \cup {cik_files}

ProgressDatas ==
  {[cik_adsh_counts |-> [c \in D |-> 1],
    current_cik |-> cur[1],
    current_cik_progress |->
      IF cur[1] = NoCik THEN ZeroProgress
      ELSE [completed_adshs |-> 1, total_adshs |-> MaxItems, last_processed_index |-> cur[2]],
    total_completed_adshs |-> Cardinality(D) + (IF cur[1] = NoCik THEN 0 ELSE 1)]
     : <<D, cur>> \in (SUBSET Ciks) \X ({<<NoCik, 0>>} \cup (Ciks \X (1..MaxItems)))}

ResumeInit ==
  /\ Quiet
  /\ cacheFile = AbsentFile
  /\ progressFile \in {AbsentFile, CorruptFile}
       \cup {save_progress_cache(d) : d \in ProgressDatas}
  /\ \E files \in Lists : arg = [op |-> "get_resume_info", files |-> files]
  /\ ret = NoArg

CallResume ==
  /\ arg.op = "get_resume_info"
  /\ ret = NoArg
  /\ ret' = [op |-> "get_resume_info", val |-> get_resume_info(progressFile, arg.files)]
  /\ UNCHANGED <<inv, failedFile, cacheFile, progressFile, docs, pc, loc, g, arg>>

SpecResume == ResumeInit /\ [][CallResume]_vars

\* ==================================================================== claims

\* C1: save_download_cache(A) then save_download_cache(B) on a cache that holds
\* the key set S leaves the persisted key set S \cup A \cup B, whatever the
\* overlap (A \cup B on an empty cache); a second call with the same key set
\* leaves the persisted key set as the first call left it.
C1_MergeIsUnion ==
  arg.op = "save_download_cache" =>
    /\ \A n \in 1..Len(arg.calls) :
         /\ arg.calls[n].after = arg.S \cup UNION {arg.calls[m].keys : m \in 1..n}
         /\ (n >= 2 /\ arg.calls[n].keys = arg.calls[n-1].keys)
              => arg.calls[n].after = arg.calls[n-1].after
    /\ Len(arg.calls) >= 1 => CacheKeys(cacheFile) = arg.calls[Len(arg.calls)].after

\* Two calls with overlapping, different key sets on a non-empty cache, and a
\* repeated call.
C1_Witness ==
  /\ arg.op = "save_download_cache"
  /\ arg.S # {}
  /\ Len(arg.calls) >= 2
  /\ arg.calls[1].keys \cap arg.calls[2].keys # {}
  /\ arg.calls[1].keys # arg.calls[2].keys
  /\ ~(arg.calls[2].keys \subseteq arg.S \cup arg.calls[1].keys)

\* The rows of a list whose key is not in C, in order.
MissingRows(rows, C) ==
  LET NotIn(r) == RowKey(r) \notin C IN SelectSeq(rows, NotIn)
\* The entries of the flattened list that belong to the entity with row cik c.
EntriesOf(adshs, c) ==
  LET Mine(a) == a.cik = c IN SelectSeq(adshs, Mine)
\* All records of the three lists of an analysis.
AllRecords(a) == a.missing_downloads \o a.not_downloaded_ciks \o a.complete_ciks
RecordsOf(a, cik) ==
  LET Mine(r) == r.cik = cik IN SelectSeq(AllRecords(a), Mine)
DataKeys(actual_data) ==
  UNION {{RowKey(actual_data[k][2][j]) : j \in 1..Len(actual_data[k][2])}
           : k \in 1..Len(actual_data)}

\* C7: the items reported missing by analyze_download_status followed by
\* get_missing_adshs_for_download are exactly the inventory items whose key is
\* not in the cache: for each entity, its missing rows in order; in the
\* flattened list, every missing key once and no cached key.
C7_MissingIsDifference ==
  ret.op = "analyze" =>
    LET C == ret.downloaded_filings
        data == arg.actual_data
        adshs == ret.all_adshs
    IN /\ {adshs[k].cache_key : k \in 1..Len(adshs)} = DataKeys(data) \ C
       /\ Len(adshs) = Cardinality(DataKeys(data) \ C)
       /\ \A k \in 1..Len(data) :
            /\ EntriesOf(adshs, RowCik(data[k][1])) = AdshList(MissingRows(data[k][2], C))
            /\ LET recs == RecordsOf(ret.analysis, data[k][1]) IN
               /\ Len(recs) = 1
               /\ recs[1].missing_adshs = Len(MissingRows(data[k][2], C))
               /\ recs[1].status = "partially_downloaded"
                    => recs[1].missing_records = MissingRows(data[k][2], C)
               /\ recs[1].status = "not_downloaded"
                    => recs[1].adsh_records = MissingRows(data[k][2], C)
               /\ recs[1].status = "complete" => MissingRows(data[k][2], C) = <<>>

\* An analysis with a partially downloaded entity and one not downloaded at
\* all, and a cache that holds some inventory keys.
C7_Witness ==
  /\ ret.op = "analyze"
  /\ Len(ret.analysis.missing_downloads) >= 1
  /\ Len(ret.analysis.not_downloaded_ciks) >= 1
  /\ Len(ret.all_adshs) >= 2

\* C8: analyze_download_status puts every entity in exactly one of the three
\* lists, by the number d of its rows whose key is cached out of t:
\* not_downloaded when d = 0, partially_downloaded (with exactly its missing
\* rows) when 0 < d < t, complete when d = t.
C8_Classification ==
  ret.op = "analyze" =>
    \A k \in 1..Len(arg.actual_data) :
      LET cik == arg.actual_data[k][1]
          rows == arg.actual_data[k][2]
          t == Len(rows)
          d == t - Len(MissingRows(rows, ret.downloaded_filings))
          InList(l) == \E n \in 1..Len(l) : l[n].cik = cik
          a == ret.analysis
          recs == RecordsOf(a, cik)
      IN /\ Len(recs) = 1
         /\ recs[1].total_adshs = t
         /\ recs[1].downloaded_adshs = d
         /\ d = 0 => InList(a.not_downloaded_ciks) /\ recs[1].status = "not_downloaded"
         /\ (0 < d /\ d < t) =>
              /\ InList(a.missing_downloads)
              /\ recs[1].status = "partially_downloaded"
              /\ recs[1].missing_records = MissingRows(rows, ret.downloaded_filings)
         /\ d = t => InList(a.complete_ciks) /\ recs[1].status = "complete"

\* The entity with 3 rows of which only the second is cached: partially
\* downloaded, 1 of 3, missing the first and the third row.
C8_Witness ==
  /\ ret.op = "analyze"
  /\ \E n \in 1..Len(ret.analysis.missing_downloads) :
       LET r == ret.analysis.missing_downloads[n] IN
       /\ r.total_adshs = 3
       /\ r.downloaded_adshs = 1
       /\ r.completion_percentage = 333
       /\ Len(r.missing_records) = 2
       /\ r.missing_records[1].accession_number = 1
       /\ r.missing_records[2].accession_number = 3

\* C9: get_resume_info returns (current_cik, its last_processed_index) when
\* current_cik is not empty; otherwise (e, 0) for the first entity e of the
\* list that is not a key of the completed map; and ('', 0) exactly when
\* current_cik is empty and every listed entity is in the completed map.
C9_ResumePoint ==
  ret.op = "get_resume_info" =>
    LET p == load_progress_cache(progressFile)
        files == arg.files
        Open == {k \in 1..Len(files) : files[k] \notin DOMAIN p.cik_adsh_counts}
    IN /\ p.current_cik # NoCik =>
            ret.val = <<p.current_cik, p.current_cik_progress.last_processed_index>>
       /\ (p.current_cik = NoCik /\ Open # {}) =>
            \E k \in Open : /\ \A m \in Open : k <= m
                            /\ ret.val = <<files[k], 0>>
       /\ (ret.val = <<NoCik, 0>>) <=> (p.current_cik = NoCik /\ Open = {})

\* A call with no current entity whose list starts with a completed entity
\* followed by an uncompleted one.
C9_Witness ==
  /\ ret.op = "get_resume_info"
  /\ load_progress_cache(progressFile).current_cik = NoCik
  /\ Len(arg.files) >= 2
  /\ arg.files[1] \in DOMAIN load_progress_cache(progressFile).cik_adsh_counts
  /\ ret.val = <<arg.files[2], 0>>

\* C2: in every persisted state of the completion cache, total_count is the
\* number of distinct keys of downloaded_filings, and downloaded_filings
\* lists no key twice.
C2_CountIsCardinality ==
  cacheFile.status = "ok" =>
    /\ cacheFile.total_count = Cardinality(Range(cacheFile.downloaded_filings))
    /\ Len(cacheFile.downloaded_filings) = Cardinality(Range(cacheFile.downloaded_filings))

\* A cache written by the flushes of two sessions, the later one a gap-fill
\* pass that followed a terminated run.
C2_Witness ==
  /\ g.kind = "gap"
  /\ g.afterKill
  /\ g.outcome = "ended"
  /\ cacheFile.status = "ok"
  /\ cacheFile.total_count >= 3

\* C3: the persisted key set of the completion cache never shrinks: every key
\* a reader of the cache saw is seen in every later state, whatever the runs,
\* flushes and terminations in between.
C3_NeverShrinks == [][CacheKeys(cacheFile) \subseteq CacheKeys(cacheFile')]_vars

ResumesAtRecordedIndex ==
  g.scen = "resumed" => (loc.resume_cik = g.killCik /\ loc.resume_index = g.killN)

\* That restart, every fetch succeeding, ends with every inventory key
\* persisted, as an uninterrupted run does.
RestartEndsWithAllKeys ==
  g.scen = "resumed_ended" => CacheKeys(cacheFile) = InvKeys

\* C5: a first run from empty stores, every fetch succeeding, is terminated
\* after N filings of an entity (0 < N < its number of filings); the restart
\* resumes that entity at the recorded last_processed_index N and, every fetch
\* succeeding, ends with the persisted key set of an uninterrupted run.
C5_ResumeEquivalent == ResumesAtRecordedIndex /\ RestartEndsWithAllKeys

\* C6: the keys of the documents that were saved and not yet flushed when the
\* process was terminated are in the persisted cache once the next run, every
\* fetch succeeding, has run to its end (each was fetched and saved again).
C6_LostKeyRefetched ==
  (g.kind = "main" /\ g.afterKill /\ g.outcome = "ended" /\ ~g.failed /\ ~g.raised)
    => g.lostPending \subseteq CacheKeys(cacheFile)

\* An entity of which the running main loop has processed a filing.
WorkedOn == pc = "items" /\ loc.filing_index > loc.resume_from_index

\* No entity is a key of cik_adsh_counts and current_cik at once.
NeverBoth ==
  LET p == load_progress_cache(progressFile) IN
  p.current_cik \notin DOMAIN p.cik_adsh_counts

\* The entity being worked on is current_cik or a key of cik_adsh_counts.
NeverNeither ==
  LET p == load_progress_cache(progressFile) IN
  WorkedOn => (CurCik = p.current_cik \/ CurCik \in DOMAIN p.cik_adsh_counts)

\* C10: no entity is a key of cik_adsh_counts and current_cik at once, and the
\* entity being worked on is one of the two.
C10_CompletedXorCurrent == NeverBoth /\ NeverNeither

\* C11: in every progress file update_cik_progress has written,
\* total_completed_adshs is the sum of the values of cik_adsh_counts plus the
\* completed_adshs of current_cik_progress.
C11_TotalIsSum ==
  progressFile.status = "ok" =>
    LET p == progressFile.data IN
    p.total_completed_adshs =
      SumValues(p.cik_adsh_counts) + p.current_cik_progress.completed_adshs

\* A progress file with a completed entity and a current entity of which one
\* filing is counted.
C11_Witness ==
  /\ progressFile.status = "ok"
  /\ progressFile.data.cik_adsh_counts # EmptyMap
  /\ progressFile.data.current_cik # NoCik
  /\ progressFile.data.current_cik_progress.completed_adshs >= 1
  /\ progressFile.data.total_completed_adshs >= 2

\* ------------------------------------------------------------- SpecRate
\* A chain of download_single_filing calls, each given the timestamp the
\* previous one returned. Time is counted in ticks of half a REQUEST_DELAY.
RequestDelay == 2
\* The clock stops the chain at MaxClock; up to MaxLatency ticks pass between
\* the return of one call and the entry of the next.
MaxClock == 12
MaxLatency == 3

\* respect_rate_limit called at current_time: the time it returns at, after
\* the sleep of REQUEST_DELAY - time_since_last when that is positive.
respect_rate_limit(last_request_time, current_time) ==
  LET time_since_last == current_time - last_request_time
  IN IF time_since_last < RequestDelay
     THEN current_time + (RequestDelay - time_since_last)
     ELSE current_time

\* What download_single_filing returns: "saved" with the new timestamp,
\* "no_response" (download_file returned None) with the new timestamp,
\* "save_raises" (_save_raw_filing raised, caught by the except clause)
\* with the timestamp it was given.
download_single_filing(outcome, last_request_time, current_time) ==
  LET new_request_time == respect_rate_limit(last_request_time, current_time)
  IN [result |-> outcome = "saved",
      get_at |-> new_request_time,
      request_time |-> IF outcome = "save_raises" THEN last_request_time
                       ELSE new_request_time]

Outcomes == {"saved", "no_response", "save_raises"}

\* last_request_time = 0 and a clock far from 0: the first call never sleeps.
RateInit ==
  /\ Quiet
  /\ cacheFile = AbsentFile
  /\ progressFile = AbsentFile
  /\ arg = [op |-> "chain", now |-> RequestDelay, last_request_time |-> 0,
            gets |-> 0, last_get |-> 0, gap |-> 0,
            raised |-> FALSE]
  /\ ret = NoArg

CallDownload(outcome, latency) ==
  /\ arg.op = "chain"
  /\ LET r == download_single_filing(outcome, arg.last_request_time, arg.now + latency) IN
       /\ r.get_at <= MaxClock
       /\ arg' = [op |-> "chain",
                  now |-> r.get_at,
                  last_request_time |-> r.request_time,
                  gets |-> IF arg.gets < 2 THEN arg.gets + 1 ELSE arg.gets,
                  last_get |-> r.get_at,
                  gap |-> IF arg.gets = 0 THEN 0 ELSE r.get_at - arg.last_get,
                  raised |-> arg.raised \/ outcome = "save_raises"]
  /\ UNCHANGED <<inv, failedFile, cacheFile, progressFile, docs, pc, loc, g, ret>>

RateNext == \E outcome \in Outcomes : \E latency \in 0..MaxLatency : CallDownload(outcome, latency)

SpecRate == RateInit /\ [][RateNext]_vars

\* C12: along a chain of download_single_filing calls, two consecutive GETs are
\* at least REQUEST_DELAY apart, whatever the outcomes of the calls (and so K
\* consecutive GETs span at least (K-1) * REQUEST_DELAY).
C12_MinSpacing ==
  (arg.op = "chain" /\ arg.gets >= 2) => arg.gap >= RequestDelay

\* The same for the chains in which no save raised.
SpacingWithoutRaise ==
  (arg.op = "chain" /\ arg.gets >= 2 /\ ~arg.raised) => arg.gap >= RequestDelay

\* The keys a running session holds in newly_downloaded.
Pending == IF loc.kind \in {"main", "gap"} THEN loc.newly_downloaded ELSE {}

\* C13: every key in newly_downloaded or in the persisted cache is the key of
\* a filing that was fetched and whose document was saved; the key of a filing
\* whose fetches all failed is in neither.
C13_CachedKeysAreSaved ==
  /\ CacheKeys(cacheFile) \subseteq docs
  /\ Pending \subseteq docs

\* A first run in which a fetch failed has come to its end and flushed the
\* keys of the filings it saved; the filing that failed has no document and
\* no key.
C13_Witness ==
  /\ g.sessions = 1
  /\ g.kind = "main"
  /\ g.outcome = "ended"
  /\ g.failed
  /\ CacheKeys(cacheFile) # {}
  /\ \E k \in InvKeys : k \notin docs /\ k \notin CacheKeys(cacheFile)

\* The cache key of a failure record.
FailureKey(rec) == get_filing_cache_key(rec.cik, rec.accession_number)

\* Every fetch of the gap-fill pass that failed has a record with the
\* filing's cik, accession_number and form_type: in failed_downloads_list as
\* soon as it failed, in the persisted log once the pass has returned.
RecordsEveryFailure ==
  /\ (pc = "gap" /\ loc.last_cause # "none") =>
       LET rec == loc.failed_downloads_list[Len(loc.failed_downloads_list)]
           adsh == loc.adshs[loc.i]
       IN /\ rec.cik = adsh.cik
          /\ rec.accession_number = adsh.accession_number
          /\ rec.form_type = adsh.form_type
  /\ (g.kind = "gap" /\ g.outcome \in {"ended", "gap_failed"}) =>
       \A k \in g.gapFailed :
         \E j \in DOMAIN FailureLog(failedFile) : FailureKey(FailureLog(failedFile)[j]) = k

\* "Download failed" names no HTTP status.
NamesStatus(error_message) == error_message # "Download failed"

\* The record of a fetch that failed on a status other than 200 names it.
MessageReflectsStatus ==
  (pc = "gap" /\ loc.last_cause = "http_status") =>
    NamesStatus(loc.failed_downloads_list[Len(loc.failed_downloads_list)].error_message)

\* C14: every unsuccessful fetch of the gap-fill pass has a record in the
\* failure log with the filing's cik, accession_number and form_type, and the
\* error_message of the record reflects the cause of the failure.
C14_FailuresLogged == RecordsEveryFailure /\ MessageReflectsStatus

\* Log s is the beginning of log t.
IsPrefix(s, t) == Len(s) <= Len(t) /\ \A j \in 1..Len(s) : t[j] = s[j]

\* C15: the persisted failure log is append-only: a gap-fill pass that returns
\* leaves the earlier log followed by one record for each of its failures,
\* and no other step removes or changes a record.
C15_LogAppendOnly ==
  [][IF pc = "gap" /\ g'.outcome \in {"ended", "gap_failed"}
     THEN FailureLog(failedFile') = FailureLog(failedFile) \o loc.failed_downloads_list
     ELSE IsPrefix(FailureLog(failedFile), FailureLog(failedFile'))]_vars

\* The main loop is running.
InLoop == pc \in {"cik", "items"}

\* One step of the running main loop.
LoopStep ==
  \/ CikStart
  \/ EntityRaiseAtRead
  \/ FilingBeforeResume
  \/ FilingCached
  \/ \E ok \in BOOLEAN : FilingDownload(ok)
  \/ CikEnd

\* How far the loop has come: files done, then rows done of the file it is at.
LoopRank ==
  IF pc = "end" THEN (Len(cik_files) + 1) * (MaxItems + 2)
  ELSE loc.i * (MaxItems + 2) + (IF pc = "items" THEN loc.filing_index + 1 ELSE 0)

\* C16: while the process lives, the main loop always has a next step, and
\* every step (a failed fetch and an entity that raised included) takes it
\* further towards its end-of-run step: after a failed fetch the next row of
\* the same file is due, after an exception the next file.
C16_LoopContinues ==
  /\ [](InLoop => ENABLED LoopStep)
  /\ [][InLoop =>
          \/ g'.outcome = "killed"
          \/ /\ pc' \in {"cik", "items", "end"}
             /\ LoopRank' > LoopRank
             /\ (g'.fetches > g.fetches /\ g'.failed) =>
                  (pc' = "items" /\ loc'.i = loc.i
                   /\ loc'.filing_index = loc.filing_index + 1)
             /\ (g'.raised /\ ~g.raised) =>
                  (IF loc.i = Len(cik_files) THEN pc' = "end"
                   ELSE pc' = "cik" /\ loc'.i = loc.i + 1)]_vars

\* The loop has come to its end-of-run step in a run in which a fetch failed
\* and the file of an entity raised.
C16_Witness ==
  /\ pc = "end"
  /\ g.failed
  /\ g.raised
  /\ g.fetches >= 2

C18_UnreadableCacheIsEmpty ==
  cacheFile.status \in {"absent", "corrupt"} =>
    /\ load_download_cache(cacheFile) =
         [downloaded_filings |-> {}, last_cik |-> NoCik, last_filing_index |-> 0]
    /\ (TotalAdshs > 0 => ~verify_download_completion(TotalAdshs, cacheFile))
    /\ ((InItems /\ NextIndex > loc.resume_from_index) => ToFetch)
    /\ (pc = "idle" => Len(MissingNow) = TotalAdshs)

\* A later run is at a filing whose document an earlier run saved; the cache
\* file was left unparsable, so the filing is to be fetched again.
C18_Witness ==
  /\ cacheFile.status = "corrupt"
  /\ g.sessions = 2
  /\ ToFetch
  /\ NextKey \in docs
  /\ load_download_cache(cacheFile).downloaded_filings = {}

\* ------------------------------------------------------------------ C19
\* C19: a run that starts from an empty cache and an empty progress tracker
\* and in which every fetch and save succeeds ends with the persisted key
\* set equal to the inventory keys, total_count equal to the number of
\* inventory filings, every entity in cik_adsh_counts with its number of
\* filings, and current_cik empty.
C19_CleanRunEndState ==
  g.scen = "first_ended" =>
    /\ cacheFile.status = "ok"
    /\ CacheKeys(cacheFile) = InvKeys
    /\ cacheFile.total_count = TotalAdshs
    /\ progressFile.status = "ok"
    /\ DOMAIN progressFile.data.cik_adsh_counts = Ciks
    /\ \A c \in Ciks : progressFile.data.cik_adsh_counts[c] = inv[c]
    /\ progressFile.data.current_cik = NoCik

\* Such a run has ended on an inventory of two entities and three filings.
C19_Witness ==
  /\ g.scen = "first_ended"
  /\ g.outcome = "ended"
  /\ g.fetches = 3
  /\ ~g.failed
  /\ Cardinality(docs) = 3
  /\ TotalAdshs = 3

\* ------------------------------------------------------------------ C20
\* C20: in every run of the orchestrator the gap-fill pass (the analysis of
\* the inventory against the cache and the fetching of the missing filings)
\* comes before the resume point is computed and before any fetch of the
\* main loop: the step that reads the resume point and enters the loop
\* follows a gap-fill pass that has returned.
C20_GapFillBeforeResume ==
  [][(pc = "idle" /\ pc' = "cik" /\ g'.kind = "main") =>
       (g.kind = "gap" /\ HasReturned)]_vars

\* ------------------------------------------------------------------ C21
\* C21: ensure_all_adshs_downloaded returns True exactly when every
\* inventory key is in the completion cache at its return, whatever the
\* user's answer and the outcomes of the fetches.
C21_TrueIffAllDownloaded ==
  (g.kind = "gap" /\ HasReturned) =>
    (ReturnValue(g.kind, g.outcome) <=> InvKeys \subseteq CacheKeys(cacheFile))

\* =========================================================== saved documents
\* Strings are sequences of characters here. A call saves at most MaxSaves
\* documents; the text between the tags of a body has at most MaxTagLen
\* characters.
MaxSaves == 2
MaxTagLen == 2
\* str(cik).zfill(10)
CikDirWidth == 10

RECURSIVE zfill(_, _)
\* s.zfill(width): zeros on the left up to the width.
zfill(s, width) == IF Len(s) >= width THEN s ELSE zfill(<<"0">> \o s, width)

RECURSIVE lstrip(_)
lstrip(s) == IF s # <<>> /\ Head(s) = " " THEN lstrip(Tail(s)) ELSE s
RECURSIVE rstrip(_)
rstrip(s) == IF s # <<>> /\ s[Len(s)] = " " THEN rstrip(SubSeq(s, 1, Len(s) - 1)) ELSE s
\* s.strip()
strip(s) == rstrip(lstrip(s))

\* Python's None and a str value, as values of one shape.
None == [some |-> FALSE, text |-> <<>>]
Str(s) == [some |-> TRUE, text |-> s]
\* bool(x) of an Optional[str]: None and '' are false.
Truthy(x) == x.some /\ x.text # <<>>

\* The 'form' values of the inventory; each contains "13F".
FormTypes == {"13F-HR", "13F-HR/A"}
Contains13F(form_type) == form_type \in FormTypes

\* A response body: whether it has a form13FFileNumber element with at
\* least one character other than '<' between the tags, and those characters.
TagChars == {" ", "7"}
TagTexts == UNION {[1..n -> TagChars] : n \in 1..MaxTagLen}
Bodies == {[has_tag |-> FALSE, text |-> <<>>]} \cup {[has_tag |-> TRUE, text |-> t] : t \in TagTexts}
\* re.search(r"form13FFileNumber>([^<]+)</", body): group(1), or None.
search_form13FFileNumber(body) == IF body.has_tag THEN Str(body.text) ELSE None

UnknownFileNumber == <<"unknown_13F_file_number">>
\* The form_13f_file_number download_single_filing passes to _save_raw_filing.
ExtractFileNumber(form_type, body) ==
  IF Contains13F(form_type)
  THEN LET match == search_form13FFileNumber(body)
       IN IF match.some THEN Str(strip(match.text)) ELSE Str(UnknownFileNumber)
  ELSE None

\* The path _save_raw_filing writes: the directory and the parts of the file
\* name (joined by '_', followed by '.txt').
SavePath(cik, accession_number, form_13f_file_number) ==
  [dir |-> zfill(cik, CikDirWidth),
   filename |-> IF Truthy(form_13f_file_number)
                THEN <<accession_number, form_13f_file_number.text>>
                ELSE <<accession_number>>]

\* The entity ids and accession numbers the calls draw from.
SaveCiks == {<<"7">>, <<"4", "2">>}
SaveAccessions == {"0000000007-05-000001", "0000000007-05-000002"}

\* docs holds the files of the output directory: path and content.
SaveInit ==
  /\ inv = [c \in Ciks |-> 1]
  /\ failedFile = AbsentFile
  /\ cacheFile = AbsentFile
  /\ progressFile = AbsentFile
  /\ docs = {}
  /\ pc = "idle"
  /\ loc = NoLoc
  /\ g = Ghost0
  /\ arg = [op |-> "save", calls |-> 0]
  /\ ret = NoArg

\* The save of download_single_filing (lines 122-133): the file number is
\* taken from the body, the file is written over whatever is at the path;
\* when save_file fails _save_raw_filing raises and nothing is written.
CallSaveFiling(cik, accession_number, form_type, body, written) ==
  /\ arg.op = "save"
  /\ arg.calls < MaxSaves
  /\ LET form_13f_file_number == ExtractFileNumber(form_type, body)
         file_path == SavePath(cik, accession_number, form_13f_file_number)
     IN /\ docs' = IF written
                   THEN {d \in docs : d.path # file_path}
                          \cup {[path |-> file_path, cik |-> cik,
                                 accession_number |-> accession_number, content |-> body]}
                   ELSE docs
        /\ ret' = [op |-> "save", cik |-> cik, accession_number |-> accession_number,
                   body |-> body, written |-> written, path |-> file_path,
                   form_13f_file_number |-> form_13f_file_number]
  /\ arg' = [arg EXCEPT !.calls = @ + 1]
  /\ UNCHANGED <<inv, failedFile, cacheFile, progressFile, pc, loc, g>>

SaveNext ==
  \E cik \in SaveCiks : \E accession_number \in SaveAccessions :
    \E form_type \in FormTypes : \E body \in Bodies : \E written \in BOOLEAN :
      CallSaveFiling(cik, accession_number, form_type, body, written)

SpecSave == SaveInit /\ [][SaveNext]_vars

\* ------------------------------------------------------------------ C22
\* The directory of a saved document is the entity id zero-padded to 10
\* digits, and the same item with the same body is written to one path.
DirIsPaddedCik ==
  ret.op = "save" =>
    /\ Len(ret.path.dir) = CikDirWidth
    /\ SubSeq(ret.path.dir, CikDirWidth - Len(ret.cik) + 1, CikDirWidth) = ret.cik
    /\ \A i \in 1..(CikDirWidth - Len(ret.cik)) : ret.path.dir[i] = "0"
SameBodySamePath ==
  \A d, e \in docs :
    (d.cik = e.cik /\ d.accession_number = e.accession_number /\ d.content = e.content)
      => d.path = e.path
\* The file name always has a file-number part: the text of the element when
\* the body has one, the sentinel when it has none.
FilenameHasFileNumber ==
  ret.op = "save" =>
    /\ Len(ret.path.filename) = 2
    /\ ret.path.filename[2] # <<>>
    /\ ~ret.body.has_tag => ret.path.filename[2] = UnknownFileNumber
\* The output directory holds at most one file for an item.
OneFilePerItem ==
  \A d, e \in docs :
    (d.cik = e.cik /\ d.accession_number = e.accession_number) => d.path = e.path

\* C22: the path of a saved document is a function of (entity id, accession
\* number, file number): the directory is the entity id zero-padded to 10
\* digits and the file name always carries a file-number part (the extracted
\* one, or the sentinel when the body has none); a second save of the same
\* item with the same body goes to the same path, and the output directory
\* holds at most one file per item.
C22_OnePathPerItem ==
  DirIsPaddedCik /\ SameBodySamePath /\ FilenameHasFileNumber /\ OneFilePerItem

\* ------------------------------------------------------------------ C23
\* C23: the main loop skips every entity that is already in the completed
\* map of the progress tracker: when the loop comes to such an entity it
\* does not go on to its filings (no filing is examined, no fetch is issued
\* and no progress update is written for it).
C23_CompletedEntitySkipped ==
  [][(pc = "cik"
        /\ CurCik \in DOMAIN load_progress_cache(progressFile).cik_adsh_counts)
       => pc' # "items"]_vars

\* ------------------------------------------------------------------ C24
\* C24: no fetch is issued for a filing whose key is in the persisted cache
\* at the moment the filing is reached: in the main loop it is counted as
\* skipped, and the list of the gap-fill pass holds no such filing when the
\* pass starts.
C24_NoFetchOfCachedKey ==
  /\ [][(g'.fetches # g.fetches /\ g'.sessions = g.sessions /\ pc = "items") =>
          NextKey \notin CacheKeys(cacheFile)]_vars
  /\ [][(InItems /\ NextIndex > loc.resume_from_index
           /\ NextKey \in CacheKeys(cacheFile)) =>
          (g'.fetches = g.fetches
             /\ (pc' = "items" => loc'.total_filings = loc.total_filings + 1))]_vars
  /\ [][(pc = "idle" /\ pc' = "gap") =>
          \A k \in 1..Len(loc'.adshs) : loc'.adshs[k].cache_key \notin CacheKeys(cacheFile)]_vars
  /\ [][(g'.fetches # g.fetches /\ g'.sessions = g.sessions /\ pc = "gap") =>
          GapNext.cache_key \notin CacheKeys(cacheFile)]_vars

\* A later main run is at a filing whose key an earlier session persisted.
C24_Witness ==
  /\ g.sessions = 2
  /\ g.kind = "main"
  /\ InItems
  /\ NextIndex > loc.resume_from_index
  /\ NextKey \in CacheKeys(cacheFile)
  /\ ENABLED FilingCached

\* ------------------------------------------------------------------ C25
\* C25: after every filing the main loop handles past the resume index
\* (fetched, failed, or passed over because its key is cached) the progress
\* file names that entity and that filing's index (or has the entity in the
\* completed map) before the next filing is handled.
C25_ProgressAfterEveryItem ==
  [][(InItems /\ NextIndex > loc.resume_from_index
        /\ pc' = "items" /\ loc'.filing_index = NextIndex) =>
       /\ progressFile'.status = "ok"
       /\ \/ CurCik \in DOMAIN progressFile'.data.cik_adsh_counts
          \/ /\ progressFile'.data.current_cik = CurCik
             /\ progressFile'.data.current_cik_progress.last_processed_index = NextIndex]_vars

\* The same for the filings that are fetched (successfully or not).
ProgressAfterEveryFetch ==
  [][(InItems /\ NextIndex > loc.resume_from_index /\ g'.fetches # g.fetches
        /\ pc' = "items" /\ loc'.filing_index = NextIndex) =>
       /\ progressFile'.status = "ok"
       /\ \/ CurCik \in DOMAIN progressFile'.data.cik_adsh_counts
          \/ /\ progressFile'.data.current_cik = CurCik
             /\ progressFile'.data.current_cik_progress.last_processed_index = NextIndex]_vars

\* ------------------------------------------------------------------ C26
\* At every filing boundary of the main loop the pending set holds fewer
\* than FlushInterval keys.
PendingBelowInterval ==
  (g.kind = "main" /\ pc \in {"cik", "items", "end"}) =>
    Cardinality(loc.newly_downloaded) < FlushInterval

\* The keys of saved documents that a reader of the cache no longer finds
\* after the step: those pending at the termination and those the cache held.
LostAtTermination ==
  (CacheKeys(cacheFile) \cup g'.lostPending) \ CacheKeys(cacheFile')

\* A termination of the main loop loses at most FlushInterval - 1 keys.
LossBelowInterval ==
  [][(g.kind = "main" /\ g.outcome = "running" /\ g'.outcome = "killed") =>
       Cardinality(LostAtTermination) <= FlushInterval - 1]_vars

\* C26: the main loop flushes and clears the pending set as soon as it holds
\* FlushInterval keys, so the pending set holds fewer than FlushInterval keys
\* at every filing boundary and a termination of the process loses at most
\* FlushInterval - 1 completed keys from the cache.
C26_BoundedLoss == []PendingBelowInterval /\ LossBelowInterval

\* ------------------------------------------------------------------ C27
\* The keys a running session holds: persisted, or in its pending set.
Held == CacheKeys(cacheFile) \cup (IF pc = "idle" THEN {} ELSE loc.newly_downloaded)
\* A step of a session that is not its termination.
RunStep == g.outcome = "running" /\ g'.sessions = g.sessions /\ g'.outcome # "killed"
\* The key of a fetch that succeeded in the step.
FetchedOk(key) ==
  /\ g'.fetches = g.fetches + 1
  /\ \/ /\ pc = "items" /\ key = NextKey
        /\ pc' = "items" /\ loc'.completed_adshs_for_cik = loc.completed_adshs_for_cik + 1
     \/ /\ pc = "gap" /\ InGap /\ key = GapNext.cache_key
        /\ pc' = "gap" /\ loc'.successful_downloads = loc.successful_downloads + 1

Completed(f) == DOMAIN load_progress_cache(f).cik_adsh_counts
EntityKeys(c) == {RowKey(RowsOf(c, inv[c])[j]) : j \in 1..inv[c]}

ResumedEntityCompleted ==
  g.scen = "resumed_ended" => g.killCik \in Completed(progressFile)
\* The completed_adshs recorded for the current entity does not decrease in
\* the restart.
RecordedCountNotDecreasing ==
  [][(g.scen = "resumed" /\ g'.scen = "resumed"
        /\ progressFile.status = "ok" /\ progressFile'.status = "ok"
        /\ progressFile.data.current_cik = g.killCik
        /\ progressFile'.data.current_cik = g.killCik) =>
       progressFile'.data.current_cik_progress.completed_adshs >=
         progressFile.data.current_cik_progress.completed_adshs]_vars

\* C29: when an entity is resumed after a partial run its recorded completed
\* count is the basis of the count: every filing after last_processed_index
\* being delivered, the entity is in the completed map at the end of the
\* run, and the recorded completed count of the entity never decreases
\* across the restart.
C29_ResumedCountContinues == []ResumedEntityCompleted /\ RecordedCountNotDecreasing

\* ------------------------------------------------------------------ C30
\* The cursor of a cache file names filing j of the entity of CIK file c
\* (by the name of the file or by the cik column of its rows).
CursorNames(f, c, j) == f.last_cik \in {c, RowCik(c)} /\ f.last_filing_index = j
\* The entity and the index within the entity of a filing of the gap list
\* (the rows of an entity are numbered by their accession numbers here).
StemOf(cik) == CHOOSE c \in Ciks : RowCik(c) = cik

\* C30: after every flush of the completion cache (periodic or at the end of
\* the run) the persisted cursor (last_cik, last_filing_index) names the
\* entity of the filing the run handled last and the index of that filing
\* within the entity.
C30_CursorNamesLastItem ==
  [][(RunStep /\ cacheFile' # cacheFile /\ cacheFile'.status = "ok") =>
       \/ /\ pc = "items"
          /\ CursorNames(cacheFile', CurCik, NextIndex)
       \/ /\ pc = "end"
          /\ \E j \in 1..CurTotal : CursorNames(cacheFile', CurCik, j)
       \/ /\ pc = "gap"
          /\ LET last == IF InGap THEN GapNext ELSE loc.adshs[Len(loc.adshs)]
             IN CursorNames(cacheFile', StemOf(last.cik), last.accession_number)]_vars

\* The periodic flushes of the main loop write such a cursor.
MainPeriodicCursor ==
  [][(RunStep /\ cacheFile' # cacheFile /\ cacheFile'.status = "ok" /\ pc = "items") =>
       CursorNames(cacheFile', CurCik, NextIndex)]_vars

\* ------------------------------------------------------------------ C31
\* The analysis of the inventory against the persisted cache.
AnalysisNow ==
  analyze_download_status(get_actual_adsh_data(inv, cik_files), CacheKeys(cacheFile))

FilterInit ==
  /\ inv \in {i \in [Ciks -> 1..MaxItems] : SumRows(i, cik_files) <= MaxTotalRows}
  /\ failedFile = AbsentFile
  /\ progressFile = AbsentFile
  /\ cacheFile \in {AbsentFile}
       \cup {save_download_cache(AbsentFile, {k}, NoCik, 0) : k \in InvKeys}
  /\ docs = {}
  /\ pc = "idle"
  /\ loc = NoLoc
  /\ g = Ghost0
  /\ arg = [op |-> "check", phase |-> "start", writes |-> 0]
  /\ ret = NoArg

\* get_downloaded_cache_data, analyze_download_status and
\* get_missing_adshs_for_download of check_download_progress.
FilterAnalyze ==
  /\ arg.op = "check" /\ arg.phase = "start"
  /\ LET a == analyze_download_status(get_actual_adsh_data(inv, cik_files),
                                      load_download_cache(cacheFile).downloaded_filings)
     IN arg' = [op |-> "check", phase |-> "analyzed", writes |-> arg.writes,
                all_missing_adshs |->
                  get_missing_adshs_for_download(a.missing_downloads, a.not_downloaded_ciks)]
  /\ ret' = [op |-> "analyze_done"]
  /\ UNCHANGED <<inv, failedFile, cacheFile, progressFile, docs, pc, loc, g>>

\* The call of filter_already_downloaded that ends check_download_progress.
FilterCall ==
  /\ arg.op = "check" /\ arg.phase = "analyzed"
  /\ LET missing_adshs == filter_already_downloaded(arg.all_missing_adshs, cacheFile)
     IN /\ arg' = [op |-> "check", phase |-> "filtered", writes |-> arg.writes,
                   missing_adshs |-> missing_adshs, i |-> 0,
                   cache_at_filter |-> CacheKeys(cacheFile)]
        /\ ret' = [op |-> "filter", adshs |-> arg.all_missing_adshs,
                   downloaded_cache |-> CacheKeys(cacheFile),
                   filtered_adshs |-> missing_adshs]
  /\ UNCHANGED <<inv, failedFile, cacheFile, progressFile, docs, pc, loc, g>>

\* One pass of the loop of download_missing_adshs: the GET of the next
\* filing of the list (the list is not looked up in the cache again).
FilterFetch ==
  /\ arg.op = "check" /\ arg.phase = "filtered"
  /\ arg.i < Len(arg.missing_adshs)
  /\ LET adsh == arg.missing_adshs[arg.i + 1]
     IN /\ ret' = [op |-> "fetch", key |-> adsh.cache_key,
                   cached |-> adsh.cache_key \in CacheKeys(cacheFile)]
        /\ docs' = docs \cup {adsh.cache_key}
  /\ arg' = [arg EXCEPT !.i = @ + 1]
  /\ UNCHANGED <<inv, failedFile, cacheFile, progressFile, pc, loc, g>>

\* The other process persists a key with save_download_cache.
OtherWriter(key) ==
  /\ arg.op = "check"
  /\ arg.writes < MaxCalls
  /\ cacheFile' = save_download_cache(cacheFile, {key}, NoCik, 0)
  /\ arg' = [arg EXCEPT !.writes = @ + 1]
  /\ UNCHANGED <<inv, failedFile, progressFile, docs, pc, loc, g, ret>>

FilterNext ==
  \/ FilterAnalyze
  \/ FilterCall
  \/ FilterFetch
  \/ \E key \in InvKeys : OtherWriter(key)

SpecFilter == FilterInit /\ [][FilterNext]_vars

\* ------------------------------------------------------------------ C32
\* filter_already_downloaded returns the items of its input whose key is not
\* in the cache as persisted at the call, each once, in input order.
FilterIsExact ==
  ret.op = "filter" =>
    LET in == ret.adshs
        out == ret.filtered_adshs
        Pos(x) == CHOOSE n \in 1..Len(in) : in[n] = x
    IN /\ \A n \in 1..Len(out) :
            /\ \E m \in 1..Len(in) : in[m] = out[n]
            /\ out[n].cache_key \notin ret.downloaded_cache
       /\ \A m \in 1..Len(in) :
            in[m].cache_key \notin ret.downloaded_cache =>
              \E n \in 1..Len(out) : out[n] = in[m]
       /\ \A n, k \in 1..Len(out) : n < k => Pos(out[n]) < Pos(out[k])
\* No filing is fetched whose key is in the cache when it is fetched.
NoFetchOfKeyAddedSince == ret.op = "fetch" => ~ret.cached
\* No filing is fetched whose key was in the cache at the filter call.
NoFetchOfKeyAddedBeforeFilter ==
  ret.op = "fetch" => ret.key \notin arg.cache_at_filter

\* C32: filter_already_downloaded returns exactly the items of its input list
\* whose cache_key is not in the cache as persisted at the time of the call,
\* in input order, so that a filing whose key was added to the cache between
\* the analysis and the fetch is not fetched.
C32_FilterBeforeFetch == FilterIsExact /\ NoFetchOfKeyAddedSince

\* ------------------------------------------------------------------ C33
\* The position of a filing among the rows of its entity's file.
RowIndex(cik, accession_number) ==
  LET rows == RowsOf(StemOf(cik), inv[StemOf(cik)])
  IN CHOOSE j \in 1..Len(rows) : rows[j].accession_number = accession_number
\* Two entries of one entity are in the list in the order of their rows.
ListInInventoryOrder(adshs) ==
  \A m, n \in 1..Len(adshs) :
    (m < n /\ adshs[m].cik = adshs[n].cik) =>
      RowIndex(adshs[m].cik, adshs[m].accession_number)
        < RowIndex(adshs[n].cik, adshs[n].accession_number)

\* C33: the filings of an entity are attempted in the order of the
\* inventory: the main loop fetches the filing that follows the one it
\* handled last, and the list of the gap-fill pass, which is fetched from
\* its first entry to its last, has the missing filings of an entity in the
\* order of their rows.
C33_InventoryOrder ==
  /\ [][(g.kind = "main" /\ pc = "items" /\ g'.sessions = g.sessions
           /\ g'.fetches = g.fetches + 1) =>
          /\ RowIndex(NextRow.cik, NextRow.accession_number) = loc.filing_index + 1
          /\ pc' = "items" => loc'.filing_index = loc.filing_index + 1]_vars
  /\ [](pc = "gap" => ListInInventoryOrder(loc.adshs))
  /\ [][(pc = "gap" /\ g'.sessions = g.sessions /\ g'.fetches = g.fetches + 1) =>
          /\ loc.i < Len(loc.adshs)
          /\ pc' = "gap" => (loc'.i = loc.i + 1 /\ loc'.adshs = loc.adshs)]_vars

\* A gap-fill pass has fetched two filings of one entity, the earlier row
\* first.
C33_Witness ==
  /\ pc = "gap"
  /\ \E m, n \in 1..Len(loc.adshs) :
       /\ m < n
       /\ n <= loc.i
       /\ loc.adshs[m].cik = loc.adshs[n].cik
       /\ loc.adshs[m].accession_number < loc.adshs[n].accession_number

\* --------------------------------------------------------- SpecProgress
\* update_cik_progress called MaxCalls times on any progress file.
ProgressInit ==
  /\ Quiet
  /\ cacheFile = AbsentFile
  /\ progressFile \in {AbsentFile, CorruptFile}
       \cup {save_progress_cache(d) : d \in ProgressDatas}
  /\ arg = [op |-> "update_cik_progress", calls |-> 0]
  /\ ret = NoArg

CallUpdate(cik, completed_adshs, total_adshs, last_processed_index, is_completed) ==
  /\ arg.op = "update_cik_progress"
  /\ arg.calls < MaxCalls
  /\ progressFile' = update_cik_progress(progressFile, cik, completed_adshs, total_adshs,
                                         last_processed_index, is_completed)
  /\ arg' = [arg EXCEPT !.calls = @ + 1]
  /\ ret' = [op |-> "update_cik_progress",
             before |-> load_progress_cache(progressFile),
             cik |-> cik, completed_adshs |-> completed_adshs,
             total_adshs |-> total_adshs,
             last_processed_index |-> last_processed_index,
             is_completed |-> is_completed]
  /\ UNCHANGED <<inv, failedFile, cacheFile, docs, pc, loc, g>>

ProgressNext ==
  \E cik \in Ciks : \E total_adshs \in 1..MaxItems :
    \E completed_adshs \in 0..total_adshs : \E last_processed_index \in 1..total_adshs :
      \E is_completed \in BOOLEAN :
        CallUpdate(cik, completed_adshs, total_adshs, last_processed_index, is_completed)

SpecProgress == ProgressInit /\ [][ProgressNext]_vars

\* ------------------------------------------------------------------ C34
\* C34: update_cik_progress with is_completed false sets current_cik and
\* current_cik_progress to the given entity and counters and leaves
\* cik_adsh_counts as it was; with is_completed true it sets
\* cik_adsh_counts[cik] to the total, resets current_cik to '' and the
\* counters to zero, and leaves every other entry of cik_adsh_counts as it was.
C34_UpdateFrame ==
  ret.op = "update_cik_progress" =>
    LET before == ret.before
        after == progressFile.data
    IN /\ progressFile.status = "ok"
       /\ ~ret.is_completed =>
            /\ after.current_cik = ret.cik
            /\ after.current_cik_progress =
                 [completed_adshs |-> ret.completed_adshs,
                  total_adshs |-> ret.total_adshs,
                  last_processed_index |-> ret.last_processed_index]
            /\ after.cik_adsh_counts = before.cik_adsh_counts
       /\ ret.is_completed =>
            /\ DOMAIN after.cik_adsh_counts = DOMAIN before.cik_adsh_counts \cup {ret.cik}
            /\ after.cik_adsh_counts[ret.cik] = ret.total_adshs
            /\ \A c \in DOMAIN before.cik_adsh_counts \ {ret.cik} :
                 after.cik_adsh_counts[c] = before.cik_adsh_counts[c]
            /\ after.current_cik = NoCik
            /\ after.current_cik_progress = ZeroProgress

\* An entity was marked complete while another was in the completed map and
\* a third value was the current one.
C34_Witness ==
  /\ ret.op = "update_cik_progress"
  /\ ret.is_completed
  /\ ret.before.current_cik # NoCik
  /\ DOMAIN ret.before.cik_adsh_counts \ {ret.cik} # {}
  /\ ret.cik \notin DOMAIN ret.before.cik_adsh_counts
  /\ Cardinality(DOMAIN progressFile.data.cik_adsh_counts) = 2

\* ------------------------------------------------------------------ C35
\* C35: in the main loop every filing whose fetch or save fails yields a
\* failure record, and the failure log is persisted at the end of the run
\* when there is such a record: the last step of a run in which a fetch has
\* failed leaves a failure log with at least one record, written by the run.
C35_MainLoopLogsFailures ==
  [][(g.kind = "main" /\ g.failed /\ RunStep /\ pc = "end" /\ pc' = "idle") =>
       /\ failedFile'.status = "ok"
       /\ Len(FailureLog(failedFile')) >= 1
       /\ failedFile = AbsentFile => failedFile' # failedFile]_vars

\* ------------------------------------------------------------------ C36
\* The keys of the filings the running pass has behind it: the filings of
\* the files before the current one and the rows of the current file up to
\* filing_index in the main loop, the first i entries of the list in the
\* gap-fill pass.
Behind ==
  CASE pc = "gap" -> {loc.adshs[k].cache_key : k \in 1..loc.i}
    [] pc \in {"cik", "items", "end"} ->
         UNION {EntityKeys(cik_files[k]) : k \in 1..(loc.i - 1)}
           \cup (CASE pc = "items" -> {RowKey(CurRows[j]) : j \in 1..loc.filing_index}
                   [] pc = "end" -> EntityKeys(cik_files[loc.i])
                   [] OTHER -> {})
    [] OTHER -> {}

\* The step fetches a filing; its key.
FetchStep == g'.sessions = g.sessions /\ g'.fetches = g.fetches + 1
FetchKey == IF pc = "gap" THEN GapNext.cache_key ELSE NextKey

\* C36: there is no retry within a run: a pass of the main loop or of
\* download_missing_adshs fetches only a filing it does not have behind it,
\* has it behind it after the fetch whether the fetch succeeded or failed,
\* and never gets a filing out from behind it again; so it fetches each
\* filing at most once and a failed one not again in the same session.
C36_NoRetryWithinRun ==
  /\ [][FetchStep => /\ FetchKey \notin Behind
                      /\ pc' # "idle" => FetchKey \in Behind']_vars
  /\ [][(pc # "idle" /\ pc' # "idle" /\ g'.sessions = g.sessions) =>
          Behind \subseteq Behind']_vars

\* A first run that fetched every filing of the inventory once, one of them
\* without success, and is at its end.
C36_Witness ==
  /\ g.kind = "main" /\ g.sessions = 1 /\ pc = "end"
  /\ g.failed
  /\ g.fetches = Cardinality(InvKeys)
  /\ g.fetches >= 2
  /\ Behind = InvKeys

\* -------------------------------------------------------- SpecConcurrent
\* Two orchestrator processes on one cache directory. Each calls
\* save_download_cache and update_cik_progress once; a call is two steps, the
\* load of the file and the write of the merged content, and no lock keeps
\* the steps of the other process from falling between them.
Procs == {1, 2}
ReadyJob == [at |-> "ready"]

ConcurrentInit ==
  /\ Quiet
  /\ cacheFile \in {AbsentFile,
                    save_download_cache(AbsentFile, {get_filing_cache_key(RowCik(cik_files[1]), 1)},
                                        NoCik, 0)}
  /\ progressFile = AbsentFile
  /\ arg = [op |-> "concurrent",
            cache |-> [p \in Procs |-> ReadyJob],
            progress |-> [p \in Procs |-> ReadyJob],
            lastCache |-> 0,
            lastProgress |-> 0]
  /\ ret = NoArg

\* save_download_cache up to the load of the existing cache.
ProcLoadCache(p, downloaded_filings) ==
  /\ arg.op = "concurrent"
  /\ arg.cache[p].at = "ready"
  /\ arg' = [arg EXCEPT !.cache[p] = [at |-> "loaded",
                                      keys |-> downloaded_filings,
                                      loaded |-> cacheFile]]
  /\ UNCHANGED <<inv, failedFile, cacheFile, progressFile, docs, pc, loc, g, ret>>

\* A plausible slip: the load and the write are one step, as under a lock.
ProcWriteCache_locked(p) ==
  /\ arg.op = "concurrent"
  /\ arg.cache[p].at = "loaded"
  /\ cacheFile' = save_download_cache(cacheFile, arg.cache[p].keys, NoCik, 0)
  /\ arg' = [arg EXCEPT !.cache[p] = [at |-> "done",
                                      keys |-> @.keys,
                                      loaded |-> @.loaded,
                                      stale |-> (cacheFile # @.loaded)],
                        !.lastCache = p]
  /\ UNCHANGED <<inv, failedFile, progressFile, docs, pc, loc, g, ret>>

\* ... from the merge to the write: what was loaded, merged with the new
\* keys, replaces the file.
ProcWriteCache(p) ==
  /\ arg.op = "concurrent"
  /\ arg.cache[p].at = "loaded"
  /\ cacheFile' = save_download_cache(arg.cache[p].loaded, arg.cache[p].keys, NoCik, 0)
  /\ arg' = [arg EXCEPT !.cache[p] = [at |-> "done",
                                      keys |-> @.keys,
                                      loaded |-> @.loaded,
                                      stale |-> (cacheFile # @.loaded)],
                        !.lastCache = p]
  /\ UNCHANGED <<inv, failedFile, progressFile, docs, pc, loc, g, ret>>

\* update_cik_progress up to the load of the progress file.
ProcLoadProgress(p, cik, is_completed) ==
  /\ arg.op = "concurrent"
  /\ arg.progress[p].at = "ready"
  /\ arg' = [arg EXCEPT !.progress[p] = [at |-> "loaded",
                                         cik |-> cik,
                                         is_completed |-> is_completed,
                                         loaded |-> progressFile]]
  /\ UNCHANGED <<inv, failedFile, cacheFile, progressFile, docs, pc, loc, g, ret>>

\* The content the update of process p writes, from what it loaded.
ProcUpdate(p) ==
  LET j == arg.progress[p]
  IN update_cik_progress(j.loaded, j.cik, inv[j.cik], inv[j.cik], inv[j.cik], j.is_completed)

\* ... from the update of the loaded data to save_progress_cache.
ProcWriteProgress(p) ==
  /\ arg.op = "concurrent"
  /\ arg.progress[p].at = "loaded"
  /\ progressFile' = ProcUpdate(p)
  /\ arg' = [arg EXCEPT !.progress[p] = [at |-> "done",
                                         cik |-> @.cik,
                                         is_completed |-> @.is_completed,
                                         loaded |-> @.loaded,
                                         stale |-> (progressFile # @.loaded)],
                        !.lastProgress = p]
  /\ UNCHANGED <<inv, failedFile, cacheFile, docs, pc, loc, g, ret>>

ConcurrentNext ==
  \E p \in Procs :
    \/ \E key \in CacheCallKeys : ProcLoadCache(p, {key})
    \/ ProcWriteCache(p)
    \/ \E cik \in Ciks : \E is_completed \in BOOLEAN : ProcLoadProgress(p, cik, is_completed)
    \/ ProcWriteProgress(p)

SpecConcurrent == ConcurrentInit /\ [][ConcurrentNext]_vars

\* ------------------------------------------------------------------ C37
\* Process p wrote keys the cache file does not hold.
CacheUpdateLost(p) ==
  /\ arg.cache[p].at = "done"
  /\ ~(arg.cache[p].keys \subseteq CacheKeys(cacheFile))
\* Process p marked an entity completed and the progress file does not say so.
ProgressUpdateLost(p) ==
  /\ arg.progress[p].at = "done"
  /\ arg.progress[p].is_completed
  /\ arg.progress[p].cik \notin Completed(progressFile)
\* Process q wrote over a file another process had changed since q loaded it.
StaleCacheWrite(q) == arg.cache[q].at = "done" /\ arg.cache[q].stale
StaleProgressWrite(q) == arg.progress[q].at = "done" /\ arg.progress[q].stale

\* C37: the read-merge-write of save_download_cache and of
\* update_cik_progress is not safe under concurrent writers: the file holds
\* what its last writer loaded merged with that writer's own update,
\* whatever another process wrote between that load and that write; the keys
\* or the progress update of a process are missing from the file only after
\* such a write of another process (the state of the witness).
C37_ConcurrentWritersLoseUpdates ==
  /\ arg.op = "concurrent"
  /\ \A q \in Procs :
       /\ arg.lastCache = q =>
            CacheKeys(cacheFile) = CacheKeys(arg.cache[q].loaded) \cup arg.cache[q].keys
       /\ arg.lastProgress = q => progressFile = ProcUpdate(q)
  /\ \A p \in Procs :
       /\ CacheUpdateLost(p) => \E q \in Procs \ {p} : StaleCacheWrite(q)
       /\ ProgressUpdateLost(p) => \E q \in Procs \ {p} : StaleProgressWrite(q)

\* Both processes have returned from both calls; keys one of them wrote are
\* not in the cache file and an entity one of them completed is not in the
\* progress file.
C37_Witness ==
  /\ arg.op = "concurrent"
  /\ \A p \in Procs : arg.cache[p].at = "done" /\ arg.progress[p].at = "done"
  /\ \E p \in Procs : CacheUpdateLost(p)
  /\ \E p \in Procs : ProgressUpdateLost(p)

WriteOutcomes == {"written", "open_failed", "dump_failed"}

save_download_cache_outcome(f, downloaded_filings, current_cik, current_filing_index, w) ==
  CASE w = "written" ->
         save_download_cache(f, downloaded_filings, current_cik, current_filing_index)
    [] w = "open_failed" -> f
    [] w = "dump_failed" -> CorruptFile

FlushInit ==
  /\ Quiet
  /\ progressFile = AbsentFile
  /\ cacheFile \in {AbsentFile}
       \cup {save_download_cache(AbsentFile, S, NoCik, 0) : S \in SUBSET CacheCallKeys}
  /\ arg = [op |-> "flush",
            filing_index |-> 0,
            newly_downloaded |-> {},
            saved |-> {},
            returned |-> FALSE]
  /\ ret = NoArg

\* The key of the row at the given index of the file.
FlushKey(filing_index) == get_filing_cache_key(RowCik(cik_files[1]), filing_index)

\* One pass of the loop body for a filing that is fetched: a success puts
\* the key into newly_downloaded; when the periodic flush is due
\* save_download_cache is called and newly_downloaded is cleared.
FlushItem(ok, w) ==
  /\ arg.op = "flush"
  /\ ~arg.returned
  /\ arg.filing_index < MaxRecs
  /\ LET filing_index == arg.filing_index + 1
         cache_key == FlushKey(filing_index)
         newly == IF ok THEN arg.newly_downloaded \cup {cache_key}
                  ELSE arg.newly_downloaded
         flush == (Cardinality(newly) % FlushInterval = 0) /\ newly # {}
     IN /\ flush \/ w = "written"
        /\ cacheFile' =
             IF flush
             THEN save_download_cache_outcome(cacheFile, newly, cik_files[1], filing_index, w)
             ELSE cacheFile
        /\ arg' = [arg EXCEPT !.filing_index = filing_index,
                              !.newly_downloaded = IF flush THEN {} ELSE newly,
                              !.saved = IF ok THEN @ \cup {cache_key} ELSE @]
  /\ UNCHANGED <<inv, failedFile, progressFile, docs, pc, loc, g, ret>>

\* After the loop: the final flush of what is pending.
FlushFinal(w) ==
  /\ arg.op = "flush"
  /\ ~arg.returned
  /\ arg.filing_index = MaxRecs
  /\ arg.newly_downloaded # {} \/ w = "written"
  /\ cacheFile' =
       IF arg.newly_downloaded # {}
       THEN save_download_cache_outcome(cacheFile, arg.newly_downloaded, cik_files[1],
                                        arg.filing_index, w)
       ELSE cacheFile
  /\ arg' = [arg EXCEPT !.returned = TRUE]
  /\ UNCHANGED <<inv, failedFile, progressFile, docs, pc, loc, g, ret>>

FlushNext ==
  \/ \E ok \in BOOLEAN : \E w \in WriteOutcomes : FlushItem(ok, w)
  \/ \E w \in WriteOutcomes : FlushFinal(w)

SpecFlush == FlushInit /\ [][FlushNext]_vars

\* ------------------------------------------------------------------ C39
\* C39: at every point of a run each key whose document the run saved is in
\* the pending set or in the cache file, a key leaving the pending set only
\* when the cache write that holds it has succeeded.
C39_SavedKeyPendingOrCached ==
  (arg.op = "flush" /\ ~arg.returned) =>
    arg.saved \subseteq (arg.newly_downloaded \cup CacheKeys(cacheFile))

\* ------------------------------------------------------------------ C40
\* C40: the gap-fill pass (check_download_progress and
\* download_missing_adshs) leaves the progress file as it is: no step of the
\* pass, from its analysis to its return or its termination, changes the
\* file, so the completed map and current_cik are after the pass what they
\* were before it; the pass writes the cache file and the failure log only.
C40_GapFillLeavesProgress ==
  [][g'.kind = "gap" =>
       /\ progressFile' = progressFile
       /\ Completed(progressFile') = Completed(progressFile)
       /\ load_progress_cache(progressFile').current_cik
            = load_progress_cache(progressFile).current_cik]_vars

\* A pass that came after a main run which left an entity completed in the
\* progress file: it fetched a missing filing, wrote the cache file and the
\* failure log, and has returned.
C40_Witness ==
  /\ g.kind = "gap" /\ g.outcome = "ended" /\ pc = "idle"
  /\ g.fetches >= 2
  /\ g.failed
  /\ Completed(progressFile) # {}
  /\ cacheFile.status = "ok"
  /\ failedFile.status = "ok"

====
